---------------------------- MODULE Spec2Model ----------------------------
(***************************************************************************)
(* A model of BioSim (src/src/biosim): the annual cycle of an island of    *)
(* cells holding herbivores and carnivores.                                *)
(*                                                                         *)
(* Numbers.  Python floats are modelled as fixed-point integers: the real  *)
(* x is the integer x * Milli.  Ages, counts and years are plain integers. *)
(* A product of two fixed-point numbers is divided by Milli; where the     *)
(* code only compares a product with a draw of random.random(), the        *)
(* undivided product is compared so that no rounding decides the outcome.  *)
(*                                                                         *)
(* Randomness.  random.random() returns a value in [0, 1), so the test     *)
(* "p > random.random()" can be true iff p > 0 and can be false iff        *)
(* p < 1.  Every such test is a nondeterministic choice restricted in      *)
(* exactly this way.  random.choice and random.gauss are choices from the  *)
(* values they can return.                                                 *)
(***************************************************************************)
EXTENDS Integers, Sequences, FiniteSets, TLC

(***************************************************************************)
(* Bounds of the model.                                                    *)
(***************************************************************************)
\* individuals ever constructed in one run (seeded or born)
MaxAnimals == 3
\* simulated years in one run
MaxYears == 1
\* calls of set_animal_parameters and set_landscape_parameters in one run
MaxOverrides == 1
\* single calls of methods of one individual in one run
MaxCalls == 2

\* fixed-point denominator for the floats of the program
Milli == 1000
Micro == Milli * Milli

\* Python's None, the value Herbivore.__init__ / Carnivore.__init__ store in
\* self.fitness (fitness_update() returns nothing)
NoneValue == -1

\* the log_file argument of BioSim when it is left out (None)
NoLogFile == "None"

Min(a, b) == IF a <= b THEN a ELSE b

(***************************************************************************)
(* Species parameters (class attributes Herbivore.params, Carnivore.params)*)
(***************************************************************************)
Species == {"Herbivore", "Carnivore"}

\* keys of the params dictionaries, in dictionary (insertion) order
ParamKeys(sp) ==
  IF sp = "Herbivore"
  THEN <<"eta", "beta", "phi_age", "phi_weight", "a_half", "w_half", "mu",
         "omega", "zeta", "w_birth", "sigma_birth", "gamma", "xi", "F">>
  ELSE <<"eta", "beta", "phi_age", "phi_weight", "a_half", "w_half", "mu",
         "omega", "zeta", "w_birth", "sigma_birth", "gamma", "xi",
         "DeltaPhiMax", "F">>

HerbivoreParams ==
  [eta |-> 50, beta |-> 900, phi_age |-> 600, phi_weight |-> 100,
   a_half |-> 40 * Milli, w_half |-> 10 * Milli, mu |-> 250, omega |-> 400,
   zeta |-> 3500, w_birth |-> 8 * Milli, sigma_birth |-> 1500,
   gamma |-> 200, xi |-> 1200, F |-> 10 * Milli]

CarnivoreParams ==
  [eta |-> 125, beta |-> 750, phi_age |-> 300, phi_weight |-> 400,
   a_half |-> 40 * Milli, w_half |-> 4 * Milli, mu |-> 400, omega |-> 800,
   zeta |-> 3500, w_birth |-> 6 * Milli, sigma_birth |-> 1 * Milli,
   gamma |-> 800, xi |-> 1100, DeltaPhiMax |-> 10 * Milli, F |-> 50 * Milli]

DefaultParams == [Herbivore |-> HerbivoreParams, Carnivore |-> CarnivoreParams]

\* dict.update(dicto)
DictUpdate(p, dicto) ==
  [k \in DOMAIN p \cup DOMAIN dicto |-> IF k \in DOMAIN dicto THEN dicto[k] ELSE p[k]]

\* Animal.set_params: the loop over cls.params from its i-th key on, keys
\* being the keys the dictionary had when the loop began.  The result is the
\* dictionary and the exception raised ("" for none).  An update that adds a
\* key changes the size of the dictionary the loop iterates over, and the
\* iterator's next step (also the one that would end the loop) raises
\* RuntimeError.
RECURSIVE SetParamsLoop(_, _, _, _)
SetParamsLoop(p, dicto, keys, i) ==
  IF DOMAIN p # {keys[j] : j \in 1..Len(keys)}
  THEN [params |-> p, raised |-> "RuntimeError"]
  ELSE IF i > Len(keys) THEN [params |-> p, raised |-> ""]
  ELSE IF keys[i] \in DOMAIN dicto
       THEN IF dicto[keys[i]] < 0
            THEN [params |-> p, raised |-> "ValueError"]
            ELSE SetParamsLoop(DictUpdate(p, dicto), dicto, keys, i + 1)
       ELSE SetParamsLoop(p, dicto, keys, i + 1)

set_params(p, sp, dicto) == SetParamsLoop(p, dicto, ParamKeys(sp), 1)

(***************************************************************************)
(* Fitness                                                                 *)
(***************************************************************************)
\* 1/(1+e^-k) for k = 0..7, times Milli
LogisticTable == <<500, 731, 881, 953, 982, 993, 998, 999>>

\* 1/(1+exp(-z)) for z >= 0: linear between the integer points of the table;
\* a double gives exactly 1.0 once exp(-z) < 2^-53, i.e. from z = 37 on.
LogisticPos(z) ==
  LET k == z \div Milli
      f == z % Milli
  IN  IF k >= 37 THEN Milli
      ELSE IF k >= 7 THEN 999
      ELSE LogisticTable[k + 1]
           + ((LogisticTable[k + 2] - LogisticTable[k + 1]) * f) \div Milli

\* 1/(1+exp(-z))
Logistic(z) == IF z >= 0 THEN LogisticPos(z) ELSE Milli - LogisticPos(-z)

\* the product of two fixed-point numbers, rounded towards zero
Mul(a, b) == IF a * b >= 0 THEN (a * b) \div Milli ELSE -((-(a * b)) \div Milli)

\* a fitness that is the product of the two curves for every weight
FitnessOfCurves(p, age, weight) ==
  LET age_part    == Logistic(-Mul(p.phi_age, age * Milli - p.a_half))
      weight_part == Logistic(Mul(p.phi_weight, weight - p.w_half))
  IN  Mul(age_part, weight_part)

\* Animal.fitness_update: the value stored in self.fitness
Fitness(p, age, weight) ==
  IF weight <= 0 THEN 0
  ELSE LET age_part    == Logistic(-Mul(p.phi_age, age * Milli - p.a_half))
           weight_part == Logistic(Mul(p.phi_weight, weight - p.w_half))
       IN  Mul(age_part, weight_part)

(***************************************************************************)
(* Individuals.  animals[id] is the object with identity id.               *)
(***************************************************************************)
\* Animal.__init__ followed by Herbivore.__init__ / Carnivore.__init__
NewAnimal(sp, age, weight) ==
  [species |-> sp, age |-> age, weight |-> weight, fitness |-> NoneValue,
   has_moved |-> FALSE, amount_eaten |-> 0, hungry |-> TRUE]

fitness_update(p, a) == [a EXCEPT !.fitness = Fitness(p, a.age, a.weight)]

\* an aging that counts two years
age_update_twice(p, a) == fitness_update(p, [a EXCEPT !.age = a.age + 2])

age_update(p, a) == fitness_update(p, [a EXCEPT !.age = a.age + 1])

feed(p, a, food_to_eat) ==
  fitness_update(p, [a EXCEPT !.weight = a.weight + Mul(food_to_eat, p.beta),
                              !.amount_eaten = a.amount_eaten + food_to_eat])

annual_weight_loss(p, a) ==
  fitness_update(p, [a EXCEPT !.weight = a.weight - Mul(p.eta, a.weight)])

\* a reset that leaves the migration flag
reset_amount_not_flag(a) ==
  [a EXCEPT !.amount_eaten = 0, !.hungry = TRUE]

reset_amount(a) ==
  [a EXCEPT !.has_moved = FALSE, !.amount_eaten = 0, !.hungry = TRUE]

\* Animal.able_to_give_birth
able_to_give_birth(p, a) == a.weight > Mul(p.zeta, p.w_birth + p.sigma_birth)

(***************************************************************************)
(* The island.  A map is a sequence of rows (the lines of the map string), *)
(* each a sequence of landscape letters.                                   *)
(***************************************************************************)
LandTypes == {"W", "L", "H", "D"}

\* BioSim.check_map: TRUE when the map is accepted, FALSE when ValueError is
\* raised.  "line[0] and line[row_length] != 'W'" tests the last letter of
\* the line only: line[0] is a non-empty string, which is true.
check_map(map) ==
  /\ Len(map) > 0
  /\ \A n \in 1..Len(map) : \A x \in 1..Len(map[n]) : map[n][x] \in LandTypes
  /\ \A n \in 1..Len(map) : Len(map[n]) = Len(map[1])
  /\ \A n \in 1..Len(map) :
        /\ ~(map[n][1] /= "" /\ map[n][Len(map[1])] /= "W")
        /\ (n = 1 => \A x \in 1..Len(map[n]) : map[n][x] = "W")
        /\ (n = Len(map) => \A x \in 1..Len(map[n]) : map[n][x] = "W")

\* the map of a run
IslandMaps == { << <<"W","W","W","W">>, <<"W","L","H","W">>, <<"W","W","W","W">> >> }

\* fmax_dicto: the capacities read once, when the module cell is imported
fmax_dicto == [H |-> 300 * Milli, L |-> 800 * Milli, W |-> 0, D |-> 0]

\* Cell.__init__
Cell(landtype) ==
  [landtype |-> landtype, fodder |-> fmax_dicto[landtype],
   habitable |-> (landtype /= "W"), herbivore |-> <<>>, carnivore |-> <<>>]

\* the keys of Island.make_map's dictionary, in insertion order
RECURSIVE MapKeys(_, _, _)
MapKeys(map, y, x) ==
  IF y > Len(map) THEN <<>>
  ELSE IF x > Len(map[y]) THEN MapKeys(map, y + 1, 1)
  ELSE <<(<<x, y>>)>> \o MapKeys(map, y, x + 1)

CellOrder(map) == MapKeys(map, 1, 1)

SeqRange(s) == {s[i] : i \in 1..Len(s)}

\* Island.make_map
make_map(map) ==
  [c \in SeqRange(CellOrder(map)) |-> Cell(map[c[2]][c[1]])]

(***************************************************************************)
(* State                                                                   *)
(***************************************************************************)
VARIABLES
  island_map,   \* BioSim.island_map
  cells,        \* BioSim.cells: coordinate -> Cell
  order,        \* the keys of BioSim.cells in the dictionary's order
  animals,      \* the Animal objects constructed so far, by identity
  params,       \* Herbivore.params and Carnivore.params
  f_max,        \* Lowland.f_max, Highland.f_max, Desert.f_max, Water.f_max
  year,         \* BioSim._year
  years_left,   \* iterations of simulate()'s loop still to run
  pc,           \* position of simulate(): operation op on the i-th cell, k-th of the year
  overrides,    \* history: the parameter overrides made so far
  oplog,        \* history: the operations run this year, <<operation, cell>>, in order
  animal_count, \* Herbivore.animal_count and Carnivore.animal_count
  log_file,     \* BioSim.log_file
  h,            \* history: per individual, what happened to it this year
  call          \* history: the last single call of a method, its arguments and its outcome

vars == <<island_map, cells, order, animals, animal_count, log_file, params, f_max, year, years_left, pc, overrides, oplog, h,
          call>>

\* the record of an individual's year
NewHistory(loc, age, born) ==
  [alive |-> TRUE, cell0 |-> loc, age0 |-> age, born |-> born,
   fed |-> <<>>, hunted |-> <<>>, hunter |-> <<>>, birth |-> <<>>,
   aged |-> 0, lost |-> 0, selected |-> 0, moves |-> 0,
   pre_herb |-> loc, pre_carn |-> loc]

\* an object that no list refers to any more
Gone == [species |-> "", age |-> 0, weight |-> 0, fitness |-> 0,
         has_moved |-> FALSE, amount_eaten |-> 0, hungry |-> FALSE]
NoHistory ==
  [alive |-> FALSE, cell0 |-> <<0, 0>>, age0 |-> 0, born |-> FALSE,
   fed |-> <<>>, hunted |-> <<>>, hunter |-> <<>>, birth |-> <<>>,
   aged |-> 0, lost |-> 0, selected |-> 0, moves |-> 0,
   pre_herb |-> <<0, 0>>, pre_carn |-> <<0, 0>>]

Idle == [op |-> "idle", i |-> 0, k |-> 0]

\* no single call was made; n counts the calls
NoCall == [fn |-> "", n |-> 0]

Init ==
  /\ island_map \in {m \in IslandMaps : check_map(m)}
  /\ cells = make_map(island_map)
  /\ order = CellOrder(island_map)
  /\ animals = <<>>
  /\ animal_count = [sp \in Species |-> 0]
  /\ log_file = NoLogFile
  /\ params = DefaultParams
  /\ f_max = [L |-> 800 * Milli, H |-> 300 * Milli, D |-> 0, W |-> 0]
  /\ year = 0
  /\ years_left = 0
  /\ pc = Idle
  /\ overrides = 0
  /\ oplog = <<>>
  /\ h = <<>>
  /\ call = NoCall

(***************************************************************************)
(* Helpers on lists of object identities                                   *)
(***************************************************************************)
\* [x for x in s if x not in drop]
Without(s, drop) == SelectSeq(s, LAMBDA x : x \notin drop)

\* an insertion that puts x in front of the members with the same fitness
RECURSIVE InsertSortedInFront(_, _, _, _)
InsertSortedInFront(s, x, an, reverse) ==
  IF s = <<>> THEN <<x>>
  ELSE LET before == IF reverse THEN an[Head(s)].fitness > an[x].fitness
                                ELSE an[Head(s)].fitness < an[x].fitness
       IN  IF before THEN <<Head(s)>> \o InsertSortedInFront(Tail(s), x, an, reverse)
                     ELSE <<x>> \o s

\* list.sort(key=fitness) / list.sort(key=fitness, reverse=True): both are
\* stable, equal keys keep their order.  Insert x behind every element that
\* does not have to come after it.
RECURSIVE InsertSorted(_, _, _, _)
InsertSorted(s, x, an, reverse) ==
  IF s = <<>> THEN <<x>>
  ELSE LET before == IF reverse THEN an[Head(s)].fitness >= an[x].fitness
                                ELSE an[Head(s)].fitness <= an[x].fitness
       IN  IF before THEN <<Head(s)>> \o InsertSorted(Tail(s), x, an, reverse)
                     ELSE <<x>> \o s

RECURSIVE SortByFitness(_, _, _)
SortByFitness(s, an, reverse) ==
  IF s = <<>> THEN <<>>
  ELSE InsertSorted(SortByFitness(SubSeq(s, 1, Len(s) - 1), an, reverse),
                    s[Len(s)], an, reverse)

\* Cell.update_fitness
update_fitness(species, an, par) ==
  [id \in DOMAIN an |->
     IF id \in SeqRange(species)
     THEN fitness_update(par[an[id].species], an[id]) ELSE an[id]]

(***************************************************************************)
(* Cell: phase 1                                                           *)
(***************************************************************************)
\* Cell.update_fodder_year: the new value of self.fodder
update_fodder_year(cell) ==
  IF cell.landtype = "L" THEN 800 * Milli
  ELSE IF cell.landtype = "H" THEN 300 * Milli
  ELSE cell.fodder

\* a meal that is always F, whatever is left
HerbivoreMealFull(fodder, F) == [eat |-> F, left |-> fodder - F]

\* one turn of the loop of Cell.herbivores_eat: what the herbivore is fed and
\* what is left in the cell
HerbivoreMeal(fodder, F) ==
  IF fodder >= F THEN [eat |-> F, left |-> fodder - F]
                 ELSE [eat |-> fodder, left |-> 0]

RECURSIVE EatLoop(_, _, _, _, _)
EatLoop(herbs, i, fodder, an, par) ==
  IF i > Len(herbs) THEN [fodder |-> fodder, animals |-> an]
  ELSE LET herb == herbs[i]
           hp   == par[an[herb].species]
           m    == HerbivoreMeal(fodder, hp.F)
       IN  EatLoop(herbs, i + 1, m.left,
                   [an EXCEPT ![herb] = feed(hp, an[herb], m.eat)], par)

\* Cell.herbivores_eat: the cell and the objects afterwards
herbivores_eat(cell, an, par) ==
  LET an1    == update_fitness(cell.herbivore, an, par)
      sorted == SortByFitness(cell.herbivore, an1, TRUE)
      r      == EatLoop(sorted, 1, cell.fodder, an1, par)
  IN  [cell |-> [cell EXCEPT !.herbivore = sorted, !.fodder = r.fodder],
       animals |-> r.animals]

\* a kill probability that is the ratio also when the herbivore is the fitter
kill_proba_unclamped(cp, carn, herb) ==
  IF carn.fitness - herb.fitness < cp.DeltaPhiMax
  THEN [num |-> carn.fitness - herb.fitness, den |-> cp.DeltaPhiMax]
  ELSE [num |-> 1, den |-> 1]

\* Carnivore.kill_proba: the probability, as numerator over denominator den
kill_proba(cp, carn, herb) ==
  IF carn.fitness <= herb.fitness THEN [num |-> 0, den |-> 1]
  ELSE IF 0 < carn.fitness - herb.fitness
          /\ carn.fitness - herb.fitness < cp.DeltaPhiMax
       THEN [num |-> carn.fitness - herb.fitness, den |-> cp.DeltaPhiMax]
       ELSE [num |-> 1, den |-> 1]

\* "p > random.random()" can come out as the boolean u
CanDraw(num, den, u) == IF u THEN num > 0 ELSE num < den

\* the amount a carnivore may eat in a year, as written in Carnivore.kill
KillCap == 50

\* Carnivore.kill when kill_proba(herbi) returned u: the carnivore afterwards
\* and the value returned
kill(cp, carn, herbi, u) ==
  IF u /\ carn.hungry
  THEN IF carn.amount_eaten + herbi.weight > KillCap * Milli
       THEN [carn |-> [feed(cp, carn, KillCap * Milli - carn.amount_eaten)
                         EXCEPT !.hungry = FALSE],
             killed |-> TRUE]
       ELSE [carn |-> feed(cp, carn, herbi.weight), killed |-> TRUE]
  ELSE [carn |-> carn, killed |-> FALSE]

\* the comprehension [herb for herb in self.herbivore if not carni.kill(herb)]
\* from the j-th herbivore on; draws[<<carni, herb>>] is the outcome of the
\* random test inside kill_proba; log lists the calls of kill made so far as
\* <<carnivore, herbivore, value returned>>
RECURSIVE HuntLoop(_, _, _, _, _, _, _)
HuntLoop(carni, herbs, j, an, par, draws, acc) ==
  IF j > Len(herbs)
  THEN [animals |-> an, killed |-> acc.killed, ok |-> acc.ok, log |-> acc.log]
  ELSE LET herb == herbs[j]
           cp   == par[an[carni].species]
           kp   == kill_proba(cp, an[carni], an[herb])
           u    == draws[<<carni, herb>>]
           r    == kill(cp, an[carni], an[herb], u)
       IN  HuntLoop(carni, herbs, j + 1, [an EXCEPT ![carni] = r.carn], par, draws,
                    [killed |-> IF r.killed THEN acc.killed \cup {herb} ELSE acc.killed,
                     ok |-> acc.ok /\ CanDraw(kp.num, kp.den, u),
                     log |-> Append(acc.log, <<carni, herb, r.killed>>)])

\* a loop that offers every herbivore to every carnivore and takes the
\* killed out of the list at the end
RECURSIVE CarnLoopOffersAll(_, _, _, _, _, _, _)
CarnLoopOffersAll(carns, i, herbs, an, par, draws, acc) ==
  IF i > Len(carns)
  THEN [herbivore |-> Without(herbs, acc.killed), animals |-> an, killed |-> acc.killed,
        ok |-> acc.ok, log |-> acc.log]
  ELSE LET r == HuntLoop(carns[i], herbs, 1, an, par, draws,
                         [killed |-> {}, ok |-> acc.ok, log |-> acc.log])
       IN  CarnLoopOffersAll(carns, i + 1, herbs, r.animals, par, draws,
                             [killed |-> acc.killed \cup r.killed, ok |-> r.ok, log |-> r.log])

\* the loop "for carni in self.carnivore" from the i-th carnivore on
RECURSIVE CarnLoop(_, _, _, _, _, _, _)
CarnLoop(carns, i, herbs, an, par, draws, acc) ==
  IF i > Len(carns)
  THEN [herbivore |-> herbs, animals |-> an, killed |-> acc.killed, ok |-> acc.ok,
        log |-> acc.log]
  ELSE LET r == HuntLoop(carns[i], herbs, 1, an, par, draws,
                         [killed |-> {}, ok |-> acc.ok, log |-> acc.log])
       IN  CarnLoop(carns, i + 1, Without(herbs, r.killed), r.animals, par, draws,
                    [killed |-> acc.killed \cup r.killed, ok |-> r.ok, log |-> r.log])

\* a pass that offers the fittest herbivore first
carnivores_eat_fittest_first(cell, an, par, draws) ==
  LET an1    == update_fitness(cell.herbivore, update_fitness(cell.carnivore, an, par), par)
      sorted == SortByFitness(cell.herbivore, an1, TRUE)
      r      == CarnLoop(cell.carnivore, 1, sorted, an1, par, draws,
                         [killed |-> {}, ok |-> TRUE, log |-> <<>>])
  IN  [cell |-> [cell EXCEPT !.herbivore = r.herbivore],
       animals |-> r.animals, killed |-> r.killed, ok |-> r.ok, log |-> r.log]

\* Cell.carnivores_eat
carnivores_eat(cell, an, par, draws) ==
  LET an1    == update_fitness(cell.herbivore, update_fitness(cell.carnivore, an, par), par)
      sorted == SortByFitness(cell.herbivore, an1, FALSE)
      r      == CarnLoop(cell.carnivore, 1, sorted, an1, par, draws,
                         [killed |-> {}, ok |-> TRUE, log |-> <<>>])
  IN  [cell |-> [cell EXCEPT !.herbivore = r.herbivore],
       animals |-> r.animals, killed |-> r.killed, ok |-> r.ok, log |-> r.log]

\* the values random.gauss(w_birth, sigma_birth) is drawn from: the mean
\* (z = 0) and a value six standard deviations below it (z = 1)
GaussDraw(p, z) == p.w_birth - 6 * z * p.sigma_birth

\* a probability that counts the parent among its partners
birth_p_of_N(p, a, N) == Min(Micro, p.gamma * a.fitness * N)

\* the probability p of Animal.birth(N), times Micro
birth_p(p, a, N) == Min(Micro, p.gamma * a.fitness * (N - 1))

\* a birth whose weight loss is taken from the mean birth weight
birth_loss_of_mean(p, a, N, draw) ==
  LET baby_weight == GaussDraw(p, draw.z)
      weight_loss == Mul(p.xi, p.w_birth)
      pnum        == birth_p(p, a, N)
  IN  IF a.weight > weight_loss /\ draw.u /\ able_to_give_birth(p, a)
      THEN [parent |-> fitness_update(p, [a EXCEPT !.weight = a.weight - weight_loss]),
            born |-> TRUE, newborn |-> NewAnimal(a.species, 0, baby_weight),
            ok |-> CanDraw(pnum, Micro, draw.u)]
      ELSE [parent |-> a, born |-> FALSE, newborn |-> Gone,
            ok |-> CanDraw(pnum, Micro, draw.u)]

\* a birth that takes the weight from the parent before it tests the
\* conditions
birth_loss_first(p, a, N, draw) ==
  LET baby_weight == GaussDraw(p, draw.z)
      weight_loss == Mul(p.xi, baby_weight)
      pnum        == birth_p(p, a, N)
      lighter     == fitness_update(p, [a EXCEPT !.weight = a.weight - weight_loss])
  IN  IF a.weight > weight_loss /\ draw.u /\ able_to_give_birth(p, a)
      THEN [parent |-> lighter,
            born |-> TRUE, newborn |-> NewAnimal(a.species, 0, baby_weight),
            ok |-> CanDraw(pnum, Micro, draw.u)]
      ELSE [parent |-> lighter, born |-> FALSE, newborn |-> Gone,
            ok |-> CanDraw(pnum, Micro, draw.u)]

\* Animal.birth(N) with baby_weight = GaussDraw(p, draw.z) and the random test
\* of p coming out as draw.u: the parent afterwards, and whether a newborn is
\* returned
birth(p, a, N, draw) ==
  LET baby_weight == GaussDraw(p, draw.z)
      weight_loss == Mul(p.xi, baby_weight)
      pnum        == birth_p(p, a, N)
  IN  IF a.weight > weight_loss /\ draw.u /\ able_to_give_birth(p, a)
      THEN [parent |-> fitness_update(p, [a EXCEPT !.weight = a.weight - weight_loss]),
            born |-> TRUE, newborn |-> NewAnimal(a.species, 0, baby_weight),
            ok |-> CanDraw(pnum, Micro, draw.u)]
      ELSE [parent |-> a, born |-> FALSE, newborn |-> Gone,
            ok |-> CanDraw(pnum, Micro, draw.u)]

\* a loop in which every newborn counts for the N of the births after it
RECURSIVE BirthLoopCountsNewborns(_, _, _, _, _, _, _)
BirthLoopCountsNewborns(pop, i, N, an, par, draws, acc) ==
  IF i > Len(pop)
  THEN [animals |-> an, newborns |-> acc.newborns, ok |-> acc.ok, log |-> acc.log]
  ELSE LET id == pop[i]
           p  == par[an[id].species]
           r  == birth(p, an[id], N, draws[id])
           an1 == [k \in DOMAIN an |-> IF k = id THEN r.parent ELSE an[k]]
       IN  IF r.born
           THEN BirthLoopCountsNewborns(pop, i + 1, N + 1,
                          Append(an1, r.newborn),
                          par, draws,
                          [newborns |-> Append(acc.newborns, Len(an) + 1),
                           ok |-> acc.ok /\ r.ok /\ Len(an) < MaxAnimals,
                           log |-> Append(acc.log, <<id, N, TRUE>>)])
           ELSE BirthLoopCountsNewborns(pop, i + 1, N, an1, par, draws,
                          [newborns |-> acc.newborns, ok |-> acc.ok /\ r.ok,
                           log |-> Append(acc.log, <<id, N, FALSE>>)])

\* Cell.create_newborns from the i-th member of species_pop on; newborns get
\* the next free identities; log lists the calls of birth made so far as
\* <<parent, N, whether a newborn was returned>>
RECURSIVE BirthLoop(_, _, _, _, _, _, _)
BirthLoop(pop, i, N, an, par, draws, acc) ==
  IF i > Len(pop)
  THEN [animals |-> an, newborns |-> acc.newborns, ok |-> acc.ok, log |-> acc.log]
  ELSE LET id == pop[i]
           p  == par[an[id].species]
           r  == birth(p, an[id], N, draws[id])
           an1 == [k \in DOMAIN an |-> IF k = id THEN r.parent ELSE an[k]]
       IN  IF r.born
           THEN BirthLoop(pop, i + 1, N,
                          Append(an1, r.newborn),
                          par, draws,
                          [newborns |-> Append(acc.newborns, Len(an) + 1),
                           ok |-> acc.ok /\ r.ok /\ Len(an) < MaxAnimals,
                           log |-> Append(acc.log, <<id, N, TRUE>>)])
           ELSE BirthLoop(pop, i + 1, N, an1, par, draws,
                          [newborns |-> acc.newborns, ok |-> acc.ok /\ r.ok,
                           log |-> Append(acc.log, <<id, N, FALSE>>)])

create_newborns(species_pop, an, par, draws) ==
  BirthLoop(species_pop, 1, Len(species_pop), an, par, draws,
            [newborns |-> <<>>, ok |-> TRUE, log |-> <<>>])

\* Cell.add_newborns
add_newborns(cell, an, par, draws) ==
  LET an1 == update_fitness(cell.carnivore, update_fitness(cell.herbivore, an, par), par)
      rh  == create_newborns(cell.herbivore, an1, par, draws)
      rc  == create_newborns(cell.carnivore, rh.animals, par, draws)
  IN  [cell |-> [cell EXCEPT !.herbivore = cell.herbivore \o rh.newborns,
                             !.carnivore = cell.carnivore \o rc.newborns],
       animals |-> rc.animals, newborns |-> rh.newborns \o rc.newborns,
       ok |-> rh.ok /\ rc.ok, log |-> rh.log \o rc.log]

(***************************************************************************)
(* Migration                                                               *)
(***************************************************************************)
\* Cell.get_target_destination: surr_cells, of which random.choice picks one
surr_cells(cell_coord) ==
  << <<cell_coord[1] - 1, cell_coord[2]>>, <<cell_coord[1] + 1, cell_coord[2]>>,
     <<cell_coord[1], cell_coord[2] - 1>>, <<cell_coord[1], cell_coord[2] + 1>> >>

\* Animal.want_to_migrate when the random test of p comes out as u
want_to_migrate(a, u) == u /\ a.has_moved = FALSE

\* a selection that leaves the flag as it is
mark_moved_skipped(a) == a

\* "x.has_moved = True" in Cell.animals_to_migrate
mark_moved(a) == [a EXCEPT !.has_moved = TRUE]

\* a loop that selects by the draw alone, flagged or not
RECURSIVE MigrateLoopByDraw(_, _, _, _, _, _)
MigrateLoopByDraw(population, i, an, par, choice, acc) ==
  IF i > Len(population)
  THEN [animals |-> an, migrate |-> acc.migrate, stay |-> acc.stay, ok |-> acc.ok]
  ELSE LET x  == population[i]
           p  == par[an[x].species]
           a  == fitness_update(p, an[x])
           u  == choice[x] > 0
           ok == acc.ok /\ CanDraw(p.mu * a.fitness, Micro, u)
       IN  IF u
           THEN MigrateLoopByDraw(population, i + 1,
                            [an EXCEPT ![x] = mark_moved(a)], par, choice,
                            [migrate |-> Append(acc.migrate, x), stay |-> acc.stay, ok |-> ok])
           ELSE MigrateLoopByDraw(population, i + 1, [an EXCEPT ![x] = a], par, choice,
                            [migrate |-> acc.migrate, stay |-> Append(acc.stay, x), ok |-> ok])

\* Cell.animals_to_migrate from the i-th member of population on.  choice[x]
\* is 0 when the random test of want_to_migrate fails for x and otherwise
\* the index in surr_cells that random.choice will pick for x.
RECURSIVE MigrateLoop(_, _, _, _, _, _)
MigrateLoop(population, i, an, par, choice, acc) ==
  IF i > Len(population)
  THEN [animals |-> an, migrate |-> acc.migrate, stay |-> acc.stay, ok |-> acc.ok]
  ELSE LET x  == population[i]
           p  == par[an[x].species]
           a  == fitness_update(p, an[x])
           u  == choice[x] > 0
           ok == acc.ok /\ CanDraw(p.mu * a.fitness, Micro, u)
       IN  IF want_to_migrate(a, u) /\ ~a.has_moved
           THEN MigrateLoop(population, i + 1,
                            [an EXCEPT ![x] = mark_moved(a)], par, choice,
                            [migrate |-> Append(acc.migrate, x), stay |-> acc.stay, ok |-> ok])
           ELSE MigrateLoop(population, i + 1, [an EXCEPT ![x] = a], par, choice,
                            [migrate |-> acc.migrate, stay |-> Append(acc.stay, x), ok |-> ok])

animals_to_migrate(population, an, par, choice) ==
  MigrateLoop(population, 1, an, par, choice, [migrate |-> <<>>, stay |-> <<>>, ok |-> TRUE])

\* a migrate that appends the animal twice
migrate_twice(animal, destination, cs, an) ==
  IF an[animal].species = "Herbivore"
  THEN [cs EXCEPT ![destination].herbivore = @ \o <<animal, animal>>]
  ELSE [cs EXCEPT ![destination].carnivore = @ \o <<animal, animal>>]

\* Cell.migrate
migrate(animal, destination, cs, an) ==
  IF an[animal].species = "Herbivore"
  THEN [cs EXCEPT ![destination].herbivore = Append(@, animal)]
  ELSE IF an[animal].species = "Carnivore"
  THEN [cs EXCEPT ![destination].carnivore = Append(@, animal)]
  ELSE cs

\* a loop that appends to the drawn target whatever its landscape
RECURSIVE MoveLoopAnywhere(_, _, _, _, _, _)
MoveLoopAnywhere(movers, i, coord, cs, an, choice) ==
  IF i > Len(movers) THEN [cells |-> cs, raised |-> FALSE, lost |-> {}]
  ELSE LET animal == movers[i]
           target == surr_cells(coord)[choice[animal]]
       IN  IF target \notin DOMAIN cs
           THEN [cells |-> cs, raised |-> TRUE,
                 lost |-> {movers[k] : k \in i..Len(movers)}]
           ELSE MoveLoopAnywhere(movers, i + 1, coord, migrate(animal, target, cs, an),
                                 an, choice)

\* the loop "for animal in animal_to_migrate" of Island.migration_herbivores /
\* migration_carnivores from the i-th animal on.  self.cells[target] raises
\* KeyError when target is no key of the dictionary: the loop ends there and
\* the animals not yet appended are in no list.
RECURSIVE MoveLoop(_, _, _, _, _, _)
MoveLoop(movers, i, coord, cs, an, choice) ==
  IF i > Len(movers) THEN [cells |-> cs, raised |-> FALSE, lost |-> {}]
  ELSE LET animal == movers[i]
           target == surr_cells(coord)[choice[animal]]
       IN  IF target \notin DOMAIN cs
           THEN [cells |-> cs, raised |-> TRUE,
                 lost |-> {movers[k] : k \in i..Len(movers)}]
           ELSE IF cs[target].habitable
           THEN MoveLoop(movers, i + 1, coord, migrate(animal, target, cs, an), an, choice)
           ELSE MoveLoop(movers, i + 1, coord, migrate(animal, coord, cs, an), an, choice)

\* one iteration of "for coord in self.cells" of Island.migration_herbivores
migration_herbivores(coord, cs, an, par, choice) ==
  LET r   == animals_to_migrate(cs[coord].herbivore, an, par, choice)
      cs1 == [cs EXCEPT ![coord].herbivore = r.stay]
      m   == MoveLoop(r.migrate, 1, coord, cs1, r.animals, choice)
  IN  [cells |-> m.cells, animals |-> r.animals, selected |-> SeqRange(r.migrate),
       raised |-> m.raised, lost |-> m.lost, ok |-> r.ok]

\* one iteration of "for coord in self.cells" of Island.migration_carnivores
migration_carnivores(coord, cs, an, par, choice) ==
  LET r   == animals_to_migrate(cs[coord].carnivore, an, par, choice)
      cs1 == [cs EXCEPT ![coord].carnivore = r.stay]
      m   == MoveLoop(r.migrate, 1, coord, cs1, r.animals, choice)
  IN  [cells |-> m.cells, animals |-> r.animals, selected |-> SeqRange(r.migrate),
       raised |-> m.raised, lost |-> m.lost, ok |-> r.ok]

(***************************************************************************)
(* Cell: phases 2 and 3                                                    *)
(***************************************************************************)
Occupants(cell) == SeqRange(cell.herbivore) \cup SeqRange(cell.carnivore)

\* Cell.updating_age_for_entire_population
updating_age_for_entire_population(cell, an, par) ==
  [id \in DOMAIN an |->
     IF id \in Occupants(cell) THEN age_update(par[an[id].species], an[id]) ELSE an[id]]

\* Cell.updating_weight_loss_for_entire_population
updating_weight_loss_for_entire_population(cell, an, par) ==
  [id \in DOMAIN an |->
     IF id \in Occupants(cell) THEN annual_weight_loss(par[an[id].species], an[id])
     ELSE an[id]]

\* omega * (1 - fitness) of Animal.animal_dies, times Micro
death_p(p, a) == p.omega * (Milli - a.fitness)

\* a death that is decided by the draw alone
animal_dies_by_draw(p, a, u) ==
  [dies |-> u, ok |-> CanDraw(death_p(p, a), Micro, u)]

\* Animal.animal_dies when the random test comes out as u (the test is not
\* made when weight <= 0)
animal_dies(p, a, u) ==
  [dies |-> a.weight <= 0 \/ u,
   ok |-> a.weight <= 0 \/ CanDraw(death_p(p, a), Micro, u)]

\* Cell.check_for_random_death
check_for_random_death(cell, an, par, draws) ==
  LET dead == {id \in Occupants(cell) :
                 animal_dies(par[an[id].species], an[id], draws[id]).dies}
  IN  [cell |-> [cell EXCEPT !.herbivore = Without(cell.herbivore, dead),
                             !.carnivore = Without(cell.carnivore, dead)],
       dead |-> dead,
       ok |-> \A id \in Occupants(cell) :
                 animal_dies(par[an[id].species], an[id], draws[id]).ok]

\* Cell.reset_attributes
reset_attributes(cell, an) ==
  [id \in DOMAIN an |-> IF id \in Occupants(cell) THEN reset_amount(an[id]) ELSE an[id]]

(***************************************************************************)
(* BioSim.simulate: the order of the operations of one year.  A position   *)
(* is an operation and the index (in the dictionary's order) of the cell   *)
(* it runs on.                                                             *)
(***************************************************************************)
\* Island.yearly_cycle_phase_1 on n cells
Phase1(n) ==
  [k \in 1..(4 * n) |->
     [op |-> <<"fodder", "herb_eat", "carn_eat", "newborns">>[((k - 1) % 4) + 1],
      i |-> ((k - 1) \div 4) + 1]]

\* Island.yearly_cycle_phase_2 on n cells
Phase2(n) ==
  [k \in 1..(3 * n) |->
     [op |-> <<"age", "loss", "death">>[((k - 1) % 3) + 1], i |-> ((k - 1) \div 3) + 1]]

\* a loop running one operation on every cell
Pass(op, n) == [k \in 1..n |-> [op |-> op, i |-> k]]

\* a position of simulate(): the k-th of the schedule, which is the
\* operation op on the i-th cell
At(S, k) == [op |-> S[k].op, i |-> S[k].i, k |-> k]

\* a year in which the herbivores migrate before the cells have fed and bred
ScheduleMigrationFirst(n) ==
  Pass("mig_herb", n) \o Phase1(n) \o Pass("mig_carn", n) \o Phase2(n) \o Pass("reset", n)

\* one iteration of the loop of simulate(): the positions in the order they
\* are run
Schedule(n) ==
  Phase1(n) \o Pass("mig_herb", n) \o Pass("mig_carn", n) \o Phase2(n) \o Pass("reset", n)

Aborted == [op |-> "aborted", i |-> 0, k |-> 0]
EndPc == [op |-> "end", i |-> 0, k |-> 0]

\* the operation op leaves a cell like this one as it is
NoEffect(op, cell) ==
  CASE op = "fodder"   -> cell.landtype \notin {"L", "H"}
    [] op = "herb_eat" -> cell.herbivore = <<>>
    [] op = "mig_herb" -> cell.herbivore = <<>>
    [] op = "mig_carn" -> cell.carnivore = <<>>
    [] OTHER           -> cell.herbivore = <<>> /\ cell.carnivore = <<>>

\* simulate() from the k-th position of the schedule on, with the cells cs:
\* the iterations that change nothing are run through (and logged) in the
\* same step, up to the first operation that has something to do.
RunOn(k, cs, ord, log) ==
  LET S    == Schedule(Len(ord))
      live == {i \in 1..Len(ord) :
                 \E op \in {"fodder", "herb_eat", "mig_carn"} : ~NoEffect(op, cs[ord[i]])}
      busy == {j \in k..Len(S) : S[j].i \in live /\ ~NoEffect(S[j].op, cs[ord[S[j].i]])}
      stop == IF busy = {} THEN Len(S) + 1
              ELSE CHOOSE j \in busy : \A j2 \in busy : j <= j2
  IN  [pc |-> IF stop > Len(S) THEN EndPc ELSE At(S, stop),
       oplog |-> log \o [j \in 1..(stop - k) |-> <<S[k + j - 1].op, ord[S[k + j - 1].i]>>]]

(***************************************************************************)
(* History bookkeeping (not program state)                                 *)
(***************************************************************************)
\* the cells whose lists hold the object id
Where(cs, id) == {c \in DOMAIN cs : id \in Occupants(cs[c])}

Located(cs, id) == CHOOSE c \in Where(cs, id) : TRUE

Logged(c, op) == Append(oplog, <<op, c>>)

\* the objects of class sp that exist
Living(an, sp) == Cardinality({id \in DOMAIN an : an[id].species = sp})

\* Animal.__init__ adds 1 to the counter of the object's class and
\* Animal.__del__ takes 1 from it: the counters when the objects an2 exist
\* instead of the objects animals
Recount(an2) ==
  [sp \in Species |-> animal_count[sp] + Living(an2, sp) - Living(animals, sp)]

\* objects that no list refers to any more are destroyed
Destroy(an, ids) == [id \in DOMAIN an |-> IF id \in ids THEN Gone ELSE an[id]]
Forget(hh, ids) == [id \in DOMAIN hh |-> IF id \in ids THEN NoHistory ELSE hh[id]]

\* the phase an operation belongs to, in the order of simulate()
Rank(op) ==
  CASE op \in {"fodder", "herb_eat", "carn_eat", "newborns"} -> 1
    [] op = "mig_herb" -> 2
    [] op = "mig_carn" -> 3
    [] op \in {"age", "loss", "death"} -> 4
    [] op = "reset" -> 5
    [] op = "aborted" -> 0
    [] OTHER -> 6

\* simulate() went from position old to position new and the cells are cs:
\* when a migration pass starts on the way, note where everybody is
Snapshot(hh, cs, old, new) ==
  [id \in DOMAIN hh |->
     IF hh[id].alive /\ Where(cs, id) /= {}
     THEN [hh[id] EXCEPT
             !.pre_herb = IF Rank(old.op) < 2 /\ 2 <= Rank(new.op)
                          THEN Located(cs, id) ELSE @,
             !.pre_carn = IF Rank(old.op) < 3 /\ 3 <= Rank(new.op)
                          THEN Located(cs, id) ELSE @]
     ELSE hh[id]]

\* a fresh history for every living individual, at the start of a year
FreshYear(hh, cs, an) ==
  [id \in DOMAIN hh |->
     IF hh[id].alive /\ Where(cs, id) /= {}
     THEN NewHistory(Located(cs, id), an[id].age, FALSE) ELSE hh[id]]

(***************************************************************************)
(* Inputs                                                                  *)
(***************************************************************************)
\* the dictionaries given to set_animal_parameters
ParamInputs ==
  { <<"Herbivore", [F |-> 500 * Milli]>>,
    <<"Herbivore", [F |-> -5 * Milli]>>,
    <<"Herbivore", [eta |-> 50, F |-> -5 * Milli]>>,
    <<"Carnivore", [F |-> 30 * Milli]>> }

\* the arguments given to set_landscape_parameters
LandscapeInputs == { <<"L", [f_max |-> 500 * Milli]>>, <<"X", [f_max |-> 500 * Milli]>> }

\* the animals of a population entry
SeedHerb  == [species |-> "Herbivore", age |-> 5, weight |-> 40 * Milli]
SeedHeavy == [species |-> "Herbivore", age |-> 5, weight |-> 60 * Milli]
SeedCarn  == [species |-> "Carnivore", age |-> 5, weight |-> 40 * Milli]
SeedOther == [species |-> "Omnivore", age |-> 5, weight |-> 40 * Milli]

\* the lists given to add_population (and, as ini_pop, to BioSim)
Populations ==
  { << [loc |-> <<2, 2>>, pop |-> <<SeedHerb, SeedHeavy, SeedCarn>>] >>,
    << [loc |-> <<3, 2>>, pop |-> <<SeedHerb, SeedHeavy>>] >>,
    << [loc |-> <<3, 2>>, pop |-> <<SeedCarn, SeedCarn>>] >>,
    << [loc |-> <<1, 2>>, pop |-> <<SeedHerb>>] >>,
    << [loc |-> <<2, 2>>, pop |-> <<SeedHerb, SeedHerb, SeedHeavy>>] >>,
    << [loc |-> <<3, 2>>, pop |-> <<SeedCarn, SeedHerb, SeedCarn>>] >>,
    << [loc |-> <<2, 2>>, pop |-> <<SeedHerb, SeedOther>>] >>,
    << [loc |-> <<3, 2>>, pop |-> <<SeedCarn>>],
       [loc |-> <<2, 2>>, pop |-> <<SeedOther, SeedHerb>>] >> }

(***************************************************************************)
(* Actions                                                                 *)
(***************************************************************************)
Here == order[pc.i]

\* the step at the current position has run and left the cells cs (and the
\* simulation did not stop): simulate() goes on
Continue(cs) ==
  LET r == RunOn(pc.k + 1, cs, order, Logged(Here, pc.op))
  IN  pc' = r.pc /\ oplog' = r.oplog

\* BioSim.set_animal_parameters
SetAnimalParameters ==
  /\ pc = Idle
  /\ overrides < MaxOverrides
  /\ overrides' = overrides + 1
  /\ \E in \in ParamInputs :
       params' = [params EXCEPT ![in[1]] = set_params(params[in[1]], in[1], in[2]).params]
  /\ UNCHANGED <<log_file, animal_count, call, island_map, order, cells, animals, f_max, year, years_left, pc, oplog, h>>

\* Lowland.set_attr, Highland.set_attr, Desert.set_attr, Water.set_attr
set_attr(fm, cell_type, dicto) == [fm EXCEPT ![cell_type] = dicto.f_max]

\* BioSim.set_landscape_parameters: the class attributes afterwards and the
\* exception raised ("" for none)
set_landscape_parameters(fm, cell_type, parameters) ==
  IF cell_type \notin {"W", "L", "H", "D"}
  THEN [f_max |-> fm, raised |-> "ValueError"]
  ELSE [f_max |-> set_attr(fm, cell_type, parameters), raised |-> ""]

SetLandscapeParameters ==
  /\ pc = Idle
  /\ overrides < MaxOverrides
  /\ overrides' = overrides + 1
  /\ \E in \in LandscapeInputs : f_max' = set_landscape_parameters(f_max, in[1], in[2]).f_max
  /\ UNCHANGED <<log_file, animal_count, call, island_map, order, cells, animals, params, year, years_left, pc, oplog, h>>

\* BioSim.return_animal: the object made and the exception raised ("" for
\* none)
return_animal(d) ==
  IF d.species = "Herbivore"
  THEN [animal |-> NewAnimal("Herbivore", d.age, d.weight), raised |-> ""]
  ELSE IF d.species = "Carnivore"
  THEN [animal |-> NewAnimal("Carnivore", d.age, d.weight), raised |-> ""]
  ELSE [animal |-> Gone, raised |-> "ValueError"]

\* BioSim.return_animal applied to every entry of a list of dictionaries
return_animals(pop) == [k \in 1..Len(pop) |-> return_animal(pop[k]).animal]

\* a list comprehension that leaves out what return_animal rejects
ReturnAnimalsSkip(pop) == FALSE

\* the list comprehension over return_animal raises
ReturnAnimalsRaise(pop) == \E k \in 1..Len(pop) : return_animal(pop[k]).raised # ""

\* a seeding that appends the whole list to both lists of the cell
divide_population_undivided(cell, list, an) ==
  [cell EXCEPT !.herbivore = @ \o list, !.carnivore = @ \o list]

\* Cell.divide_population: animals are the identities of list_of_animals
divide_population(cell, list, an) ==
  [cell EXCEPT
     !.herbivore = @ \o SelectSeq(list, LAMBDA x : an[x].species = "Herbivore"),
     !.carnivore = @ \o SelectSeq(list, LAMBDA x : an[x].species = "Carnivore")]

\* BioSim.add_population from the k-th entry of population on
RECURSIVE AddLoop(_, _, _, _, _)
AddLoop(population, k, cs, an, hh) ==
  IF k > Len(population)
  THEN [cells |-> cs, animals |-> an, h |-> hh, raised |-> "", entry |-> 0]
  ELSE IF ReturnAnimalsRaise(population[k].pop)
  THEN [cells |-> cs, animals |-> an, h |-> hh, raised |-> "ValueError", entry |-> k]
  ELSE LET location == population[k].loc
           made     == return_animals(population[k].pop)
           an1      == an \o made
           list     == [j \in 1..Len(made) |-> Len(an) + j]
       IN  AddLoop(population, k + 1,
                   [cs EXCEPT ![location] = divide_population(cs[location], list, an1)],
                   an1,
                   hh \o [j \in 1..Len(made) |-> NewHistory(location, made[j].age, FALSE)])

Size(population) ==
  LET RECURSIVE Sum(_)
      Sum(k) == IF k > Len(population) THEN 0 ELSE Len(population[k].pop) + Sum(k + 1)
  IN  Sum(1)

AddPopulation ==
  /\ pc = Idle
  /\ \E population \in Populations :
       /\ Len(animals) + Size(population) <= MaxAnimals
       /\ \A k \in 1..Len(population) : population[k].loc \in DOMAIN cells
       /\ LET r == AddLoop(population, 1, cells, animals, h)
          IN  /\ cells' = r.cells
              /\ animals' = r.animals
              /\ h' = r.h
              /\ call' = [fn |-> "add_population", n |-> 0, population |-> population,
                          entry |-> r.entry, raised |-> r.raised]
  /\ animal_count' = Recount(animals')
  /\ UNCHANGED <<log_file, island_map, order, overrides, params, f_max, year, years_left, pc, oplog>>

\* simulate(num_years) is called
Simulate ==
  /\ pc = Idle
  /\ \E num_years \in 1..MaxYears :
       /\ year + num_years <= MaxYears
       /\ years_left' = num_years
  /\ LET r == RunOn(1, cells, order, oplog)
     IN  pc' = r.pc /\ oplog' = r.oplog
  /\ UNCHANGED <<log_file, animal_count, call, island_map, order, overrides, cells, animals, params, f_max, year, h>>

UpdateFodderYear ==
  /\ pc.op = "fodder"
  /\ cells' = [cells EXCEPT ![Here].fodder = update_fodder_year(cells[Here])]
  /\ Continue(cells')
  /\ h' = Snapshot(h, cells', pc, pc')
  /\ UNCHANGED <<log_file, animal_count, call, island_map, order, overrides, animals, params, f_max, year, years_left>>

HerbivoresEat ==
  /\ pc.op = "herb_eat"
  /\ LET r == herbivores_eat(cells[Here], animals, params)
     IN  /\ cells' = [cells EXCEPT ![Here] = r.cell]
         /\ animals' = r.animals
  /\ Continue(cells')
  /\ h' = Snapshot([id \in DOMAIN h |->
                      IF id \in SeqRange(cells[Here].herbivore)
                      THEN [h[id] EXCEPT !.fed = Append(@, Here)] ELSE h[id]],
                   cells', pc, pc')
  /\ animal_count' = Recount(animals')
  /\ UNCHANGED <<log_file, call, island_map, order, overrides, params, f_max, year, years_left>>

CarnivoresEat ==
  /\ pc.op = "carn_eat"
  /\ \E draws \in [SeqRange(cells[Here].carnivore) \X SeqRange(cells[Here].herbivore)
                     -> BOOLEAN] :
       LET r == carnivores_eat(cells[Here], animals, params, draws)
       IN  /\ r.ok
           /\ cells' = [cells EXCEPT ![Here] = r.cell]
           /\ animals' = Destroy(r.animals, r.killed)
           /\ Continue(cells')
           /\ h' = Snapshot(Forget([id \in DOMAIN h |->
                               IF id \in SeqRange(cells[Here].herbivore)
                               THEN [h[id] EXCEPT !.hunted = Append(@, Here)]
                               ELSE IF id \in SeqRange(cells[Here].carnivore)
                               THEN [h[id] EXCEPT !.hunter = Append(@, Here)]
                               ELSE h[id]], r.killed),
                            cells', pc, pc')
  /\ animal_count' = Recount(animals')
  /\ UNCHANGED <<log_file, call, island_map, order, overrides, params, f_max, year, years_left>>

AddNewborns ==
  /\ pc.op = "newborns"
  /\ \E draws \in [Occupants(cells[Here]) -> [z : {0, 1}, u : BOOLEAN]] :
       LET r  == add_newborns(cells[Here], animals, params, draws)
           hh == [id \in DOMAIN h |->
                    IF id \in Occupants(cells[Here])
                    THEN [h[id] EXCEPT !.birth = Append(@, Here)] ELSE h[id]]
                 \o [j \in 1..Len(r.newborns) |-> NewHistory(Here, 0, TRUE)]
       IN  /\ r.ok
           /\ cells' = [cells EXCEPT ![Here] = r.cell]
           /\ animals' = r.animals
           /\ Continue(cells')
           /\ h' = Snapshot(hh, cells', pc, pc')
  /\ animal_count' = Recount(animals')
  /\ UNCHANGED <<log_file, call, island_map, order, overrides, params, f_max, year, years_left>>

\* the history after one cell's step of a migration pass with result r
Migrated(r) ==
  [id \in DOMAIN h |->
     IF id \in r.selected /\ id \notin r.lost
     THEN [h[id] EXCEPT !.selected = @ + 1,
                        !.moves = IF Located(r.cells, id) /= Here THEN @ + 1 ELSE @]
     ELSE h[id]]

MigrationHerbivores ==
  /\ pc.op = "mig_herb"
  /\ \E choice \in [SeqRange(cells[Here].herbivore) -> 0..4] :
       LET r == migration_herbivores(Here, cells, animals, params, choice)
       IN  /\ r.ok
           /\ cells' = r.cells
           /\ animals' = Destroy(r.animals, r.lost)
           /\ IF r.raised THEN pc' = Aborted /\ oplog' = Logged(Here, "mig_herb")
                          ELSE Continue(r.cells)
           /\ h' = Snapshot(Forget(Migrated(r), r.lost), r.cells, pc, pc')
  /\ animal_count' = Recount(animals')
  /\ UNCHANGED <<log_file, call, island_map, order, overrides, params, f_max, year, years_left>>

MigrationCarnivores ==
  /\ pc.op = "mig_carn"
  /\ \E choice \in [SeqRange(cells[Here].carnivore) -> 0..4] :
       LET r == migration_carnivores(Here, cells, animals, params, choice)
       IN  /\ r.ok
           /\ cells' = r.cells
           /\ animals' = Destroy(r.animals, r.lost)
           /\ IF r.raised THEN pc' = Aborted /\ oplog' = Logged(Here, "mig_carn")
                          ELSE Continue(r.cells)
           /\ h' = Forget(Migrated(r), r.lost)
  /\ animal_count' = Recount(animals')
  /\ UNCHANGED <<log_file, call, island_map, order, overrides, params, f_max, year, years_left>>

UpdatingAge ==
  /\ pc.op = "age"
  /\ animals' = updating_age_for_entire_population(cells[Here], animals, params)
  /\ h' = [id \in DOMAIN h |->
             IF id \in Occupants(cells[Here]) THEN [h[id] EXCEPT !.aged = @ + 1] ELSE h[id]]
  /\ Continue(cells)
  /\ animal_count' = Recount(animals')
  /\ UNCHANGED <<log_file, call, island_map, order, overrides, cells, params, f_max, year, years_left>>

UpdatingWeightLoss ==
  /\ pc.op = "loss"
  /\ animals' = updating_weight_loss_for_entire_population(cells[Here], animals, params)
  /\ h' = [id \in DOMAIN h |->
             IF id \in Occupants(cells[Here]) THEN [h[id] EXCEPT !.lost = @ + 1] ELSE h[id]]
  /\ Continue(cells)
  /\ animal_count' = Recount(animals')
  /\ UNCHANGED <<log_file, call, island_map, order, overrides, cells, params, f_max, year, years_left>>

CheckForRandomDeath ==
  /\ pc.op = "death"
  /\ \E draws \in [Occupants(cells[Here]) -> BOOLEAN] :
       LET r == check_for_random_death(cells[Here], animals, params, draws)
       IN  /\ r.ok
           /\ cells' = [cells EXCEPT ![Here] = r.cell]
           /\ animals' = Destroy(animals, r.dead)
           /\ h' = Forget(h, r.dead)
  /\ Continue(cells')
  /\ animal_count' = Recount(animals')
  /\ UNCHANGED <<log_file, call, island_map, order, overrides, params, f_max, year, years_left>>

ResetAttributes ==
  /\ pc.op = "reset"
  /\ animals' = reset_attributes(cells[Here], animals)
  /\ Continue(cells)
  /\ animal_count' = Recount(animals')
  /\ UNCHANGED <<log_file, call, island_map, order, overrides, cells, params, f_max, year, years_left, h>>

\* the end of one iteration of simulate()'s loop: self._year += 1
\* BioSim.save_log_file: the exception raised ("" for none).  With a file
\* name given it reads self.log_filen, an attribute that does not exist.
save_log_file(file) == IF file = NoLogFile THEN "" ELSE "AttributeError"

\* an end of iteration that counts the year once for a simulate() call
EndOfYearPerCall ==
  /\ pc.op = "end"
  /\ IF save_log_file(log_file) # ""
     THEN /\ pc' = Aborted
          /\ UNCHANGED <<year, years_left, oplog, h>>
     ELSE /\ years_left' = years_left - 1
          /\ year' = IF years_left' = 0 THEN year + 1 ELSE year
          /\ LET r == RunOn(1, cells, order, <<>>)
             IN  IF years_left' > 0 THEN pc' = r.pc /\ oplog' = r.oplog
                                    ELSE pc' = Idle /\ oplog' = <<>>
          /\ h' = FreshYear(h, cells, animals)
  /\ UNCHANGED <<log_file, animal_count, call, island_map, order, overrides, cells, animals, params, f_max>>

\* the end of an iteration of simulate()'s loop: the log file is saved and
\* the year is counted
EndOfYear ==
  /\ pc.op = "end"
  /\ IF save_log_file(log_file) # ""
     THEN /\ pc' = Aborted
          /\ UNCHANGED <<year, years_left, oplog, h>>
     ELSE /\ year' = year + 1
          /\ years_left' = years_left - 1
          /\ LET r == RunOn(1, cells, order, <<>>)
             IN  IF years_left' > 0 THEN pc' = r.pc /\ oplog' = r.oplog
                                    ELSE pc' = Idle /\ oplog' = <<>>
          /\ h' = FreshYear(h, cells, animals)
  /\ UNCHANGED <<log_file, animal_count, call, island_map, order, overrides, cells, animals, params, f_max>>

Next ==
  \/ SetAnimalParameters
  \/ SetLandscapeParameters
  \/ AddPopulation
  \/ Simulate
  \/ UpdateFodderYear
  \/ HerbivoresEat
  \/ CarnivoresEat
  \/ AddNewborns
  \/ MigrationHerbivores
  \/ MigrationCarnivores
  \/ UpdatingAge
  \/ UpdatingWeightLoss
  \/ CheckForRandomDeath
  \/ ResetAttributes
  \/ EndOfYear

Spec == Init /\ [][Next]_vars

(***************************************************************************)
(* Single calls.  A second specification applies the class methods and the *)
(* methods of one individual one call at a time, the way tests/ does:      *)
(* animals[1] is an individual constructed from drawn arguments, and call  *)
(* records the last call, what it was given and what came of it.  Here     *)
(* random.random() is forced to a value draw (times Milli), as the tests   *)
(* do with mocker.patch, so "p > random.random()" is p > draw.             *)
(***************************************************************************)
\* ages and weights given to the constructors
CallAges    == {0, 5, 45}
CallWeights == {-2 * Milli, 0, 5 * Milli, 40 * Milli, 100 * Milli}

\* the values random.random() is forced to: 0, 1/4 and 1
Draws == {0, Milli \div 4, Milli}

\* the dictionaries given to Herbivore.set_params and Carnivore.set_params
ParamDicts ==
  { [F |-> 20 * Milli],
    [F |-> -5 * Milli],
    [eta |-> 50, F |-> -5 * Milli],
    [eta |-> -1 * Milli, F |-> 20 * Milli],
    [eta |-> 100, bogus |-> 1 * Milli, F |-> -5 * Milli],
    [phi_age |-> 1 * Milli],
    [DeltaPhiMax |-> 500],
    [DeltaPhiMax |-> 0] }

\* the arguments given to set_landscape_parameters
LandscapeDicts ==
  { <<"L", [f_max |-> 500 * Milli]>>, <<"L", [f_max |-> -100 * Milli]>>,
    <<"H", [f_max |-> -1 * Milli]>>, <<"X", [f_max |-> 500 * Milli]>> }

\* the herbivores given to Carnivore.kill: constructed, and all but the last
\* with fitness_update() called
Prey ==
  { fitness_update(HerbivoreParams, NewAnimal("Herbivore", 5, w)) :
      w \in {0, 5 * Milli, 40 * Milli, KillCap * Milli} }
  \cup { NewAnimal("Herbivore", 5, 40 * Milli) }

\* Herbivore(age, weight) or Carnivore(age, weight) in a fresh interpreter
CallInit ==
  /\ island_map = <<>>
  /\ cells = <<>>
  /\ order = <<>>
  /\ animals \in { <<NewAnimal(sp, age, weight)>> :
                     sp \in Species, age \in CallAges, weight \in CallWeights }
  /\ animal_count = [sp \in Species |-> Living(animals, sp)]
  /\ log_file = NoLogFile
  /\ params = DefaultParams
  /\ f_max = [L |-> 800 * Milli, H |-> 300 * Milli, D |-> 0, W |-> 0]
  /\ year = 0
  /\ years_left = 0
  /\ pc = Idle
  /\ overrides = 0
  /\ oplog = <<>>
  /\ h = <<>>
  /\ call = NoCall

\* cls.set_params(dicto)
CallSetParams ==
  /\ overrides < MaxOverrides
  /\ overrides' = overrides + 1
  /\ \E sp \in Species, dicto \in ParamDicts :
       LET r == set_params(params[sp], sp, dicto)
       IN  /\ params' = [params EXCEPT ![sp] = r.params]
           /\ call' = [fn |-> "set_params", n |-> call.n, species |-> sp, dicto |-> dicto,
                       before |-> params[sp], raised |-> r.raised]
  /\ UNCHANGED <<log_file, animal_count, island_map, cells, order, animals, f_max, year, years_left, pc, oplog, h>>

\* BioSim.set_landscape_parameters(cell_type, parameters)
CallSetLandscapeParameters ==
  /\ overrides < MaxOverrides
  /\ overrides' = overrides + 1
  /\ \E in \in LandscapeDicts :
       LET r == set_landscape_parameters(f_max, in[1], in[2])
       IN  /\ f_max' = r.f_max
           /\ call' = [fn |-> "set_landscape_parameters", n |-> call.n, cell_type |-> in[1],
                       parameters |-> in[2], before |-> f_max, raised |-> r.raised]
  /\ UNCHANGED <<log_file, animal_count, island_map, cells, order, animals, params, year, years_left, pc, oplog, h>>

\* self.fitness_update()
CallFitnessUpdate ==
  /\ call.n < MaxCalls
  /\ animals' = [animals EXCEPT ![1] = fitness_update(params[animals[1].species], animals[1])]
  /\ call' = [fn |-> "fitness_update", n |-> call.n + 1, self |-> animals[1]]
  /\ animal_count' = Recount(animals')
  /\ UNCHANGED <<log_file, island_map, cells, order, params, f_max, year, years_left, pc, overrides,
                 oplog, h>>

\* self.birth(N) with random.gauss giving GaussDraw(z) and random.random()
\* forced to draw.  While self.fitness is None the product in line 172
\* raises TypeError.
CallBirth ==
  /\ call.n < MaxCalls
  /\ \E N \in 1..MaxAnimals, z \in {0, 1}, draw \in Draws :
       LET a == animals[1]
           p == params[a.species]
           r == birth(p, a, N, [z |-> z, u |-> birth_p(p, a, N) > draw * Milli])
           c == [fn |-> "birth", n |-> call.n + 1, self |-> a, N |-> N, z |-> z, draw |-> draw]
       IN  IF a.fitness = NoneValue
           THEN /\ animals' = animals
                /\ call' = c @@ [raised |-> "TypeError", born |-> FALSE, newborn |-> Gone]
           ELSE /\ animals' = [animals EXCEPT ![1] = r.parent]
                /\ call' = c @@ [raised |-> "", born |-> r.born, newborn |-> r.newborn]
  /\ animal_count' = [Recount(animals') EXCEPT ![animals[1].species] =
                                                  IF call'.born THEN @ + 1 ELSE @]
  /\ UNCHANGED <<log_file, island_map, cells, order, params, f_max, year, years_left, pc, overrides,
                 oplog, h>>

\* self.animal_dies() with random.random() forced to draw.  With weight <= 0
\* the first operand of "or" decides; otherwise, while self.fitness is None,
\* the difference in line 189 raises TypeError.
CallAnimalDies ==
  /\ call.n < MaxCalls
  /\ \E draw \in Draws :
       LET a == animals[1]
           p == params[a.species]
           c == [fn |-> "animal_dies", n |-> call.n + 1, self |-> a, draw |-> draw]
       IN  IF a.weight > 0 /\ a.fitness = NoneValue
           THEN call' = c @@ [raised |-> "TypeError", out |-> FALSE]
           ELSE call' = c @@ [raised |-> "",
                              out |-> animal_dies(p, a, death_p(p, a) > draw * Milli).dies]
  /\ UNCHANGED <<log_file, animal_count, island_map, cells, order, animals, params, f_max, year, years_left, pc,
                 overrides, oplog, h>>

\* self.kill(herb) of a carnivore with random.random() forced to draw: p is
\* the kill_proba computed in lines 288-293.  While either fitness is None
\* the comparison in line 288 raises TypeError.
CallKill ==
  /\ call.n < MaxCalls
  /\ animals[1].species = "Carnivore"
  /\ \E herb \in Prey, draw \in Draws :
       LET a  == animals[1]
           cp == params.Carnivore
           p  == kill_proba(cp, a, herb)
           r  == kill(cp, a, herb, p.num * Milli > draw * p.den)
           c  == [fn |-> "kill", n |-> call.n + 1, self |-> a, herb |-> herb, draw |-> draw]
       IN  IF a.fitness = NoneValue \/ herb.fitness = NoneValue
           THEN /\ animals' = animals
                /\ call' = c @@ [raised |-> "TypeError", p |-> [num |-> 0, den |-> 1],
                                 out |-> FALSE]
           ELSE /\ animals' = [animals EXCEPT ![1] = r.carn]
                /\ call' = c @@ [raised |-> "", p |-> p, out |-> r.killed]
  /\ animal_count' = Recount(animals')
  /\ UNCHANGED <<log_file, island_map, cells, order, params, f_max, year, years_left, pc, overrides,
                 oplog, h>>

CallNext ==
  \/ CallSetParams
  \/ CallSetLandscapeParameters
  \/ CallFitnessUpdate
  \/ CallBirth
  \/ CallAnimalDies
  \/ CallKill

CallSpec == CallInit /\ [][CallNext]_vars

(***************************************************************************)
(* Constructing simulations.  BioSim(island_map, ini_pop) is called with   *)
(* layouts of three rows; the objects of an earlier simulation exist until *)
(* the caller lets go of it.                                               *)
(***************************************************************************)
\* the layouts given to BioSim: three rows of three letters with water or
\* lowland in the middle cell, the middle of every side and two opposite
\* corners, besides the empty layout, rows of unequal length and a letter
\* that is no landscape
Layouts ==
  { << <<a, b, "W">>, <<c, d, e>>, <<"W", f, g>> >> :
      a \in {"W", "L"}, b \in {"W", "L"}, c \in {"W", "L"}, d \in {"W", "L"},
      e \in {"W", "L"}, f \in {"W", "L"}, g \in {"W", "L"} }
  \cup { <<>>,
         << <<"W", "W", "W">>, <<"W", "L">>, <<"W", "W", "W">> >>,
         << <<"W", "W", "W">>, <<"W", "X", "W">>, <<"W", "W", "W">> >> }

\* the initial populations given to BioSim
IniPops ==
  { <<>>,
    << [loc |-> <<2, 2>>, pop |-> <<SeedHerb>>] >>,
    << [loc |-> <<2, 2>>, pop |-> <<SeedHerb, SeedCarn>>] >> }

BuildInit ==
  /\ island_map = <<>>
  /\ cells = <<>>
  /\ order = <<>>
  /\ animals = <<>>
  /\ animal_count = [sp \in Species |-> 0]
  /\ log_file = NoLogFile
  /\ params = DefaultParams
  /\ f_max = [L |-> 800 * Milli, H |-> 300 * Milli, D |-> 0, W |-> 0]
  /\ year = 0
  /\ years_left = 0
  /\ pc = Idle
  /\ overrides = 0
  /\ oplog = <<>>
  /\ h = <<>>
  /\ call = NoCall

\* BioSim.__init__: the counters of both classes are set to 0, the layout is
\* checked, the cells are made and the initial population is added.  When
\* check_map raises, no simulation is made and the caller keeps the one it
\* had.
NewBioSim ==
  /\ call.n < MaxCalls
  /\ \E map \in Layouts, ini_pop \in IniPops :
       LET c == [fn |-> "BioSim", n |-> call.n + 1, map |-> map, ini_pop |-> ini_pop]
       IN  IF ~check_map(map)
           THEN /\ call' = c @@ [raised |-> "ValueError"]
                /\ animal_count' = [sp \in Species |-> 0]
                /\ UNCHANGED <<log_file, island_map, cells, order, animals, year, h>>
           ELSE /\ Len(animals) + Size(ini_pop) <= MaxAnimals
                /\ \A k \in 1..Len(ini_pop) : ini_pop[k].loc \in DOMAIN make_map(map)
                /\ LET r == AddLoop(ini_pop, 1, make_map(map), animals, h)
                   IN  /\ island_map' = map
                       /\ cells' = r.cells
                       /\ order' = CellOrder(map)
                       /\ animals' = r.animals
                       /\ h' = r.h
                       /\ animal_count' = [sp \in Species |->
                                             Living(r.animals, sp) - Living(animals, sp)]
                /\ year' = 0
                /\ call' = c @@ [raised |-> ""]
  /\ UNCHANGED <<log_file, params, f_max, years_left, pc, overrides, oplog>>

\* the caller lets go of the earlier simulations: their cells and the
\* objects in them are destroyed
ReleaseEarlier ==
  /\ LET old == {id \in DOMAIN animals :
                   animals[id].species \in Species /\ Where(cells, id) = {}}
     IN  /\ old # {}
         /\ animals' = Destroy(animals, old)
         /\ h' = Forget(h, old)
  /\ animal_count' = Recount(animals')
  /\ UNCHANGED <<log_file, island_map, cells, order, params, f_max, year, years_left, pc, overrides,
                 oplog, call>>

BuildNext ==
  \/ NewBioSim
  \/ ReleaseEarlier

BuildSpec == BuildInit /\ [][BuildNext]_vars

(***************************************************************************)
(* Several years.  A simulation constructed with no or one individual and  *)
(* with or without a log file is run by simulate() calls of 0 and more     *)
(* years.                                                                  *)
(***************************************************************************)
\* the years simulated by the calls of a run together
MaxSimYears == 3

\* the log_file arguments given to BioSim
LogFiles == {NoLogFile, "log"}

\* the initial populations given to BioSim
YearsPops ==
  { <<>>,
    << [loc |-> <<2, 2>>, pop |-> <<SeedHerb>>] >>,
    << [loc |-> <<3, 2>>, pop |-> <<SeedCarn>>] >> }

\* the state after BioSim(island_map, ini_pop, log_file=log_file)
YearsInit ==
  /\ island_map \in {m \in IslandMaps : check_map(m)}
  /\ order = CellOrder(island_map)
  /\ \E ini_pop \in YearsPops :
       LET r == AddLoop(ini_pop, 1, make_map(island_map), <<>>, <<>>)
       IN  /\ cells = r.cells
           /\ animals = r.animals
           /\ h = r.h
  /\ animal_count = [sp \in Species |-> Living(animals, sp)]
  /\ log_file \in LogFiles
  /\ params = DefaultParams
  /\ f_max = [L |-> 800 * Milli, H |-> 300 * Milli, D |-> 0, W |-> 0]
  /\ year = 0
  /\ years_left = 0
  /\ pc = Idle
  /\ overrides = 0
  /\ oplog = <<>>
  /\ call = NoCall

\* simulate(num_years) is called: range(num_years) is empty for 0 years
SimulateYears ==
  /\ pc = Idle
  /\ \E num_years \in 0..MaxSimYears :
       /\ year + num_years <= MaxSimYears
       /\ years_left' = num_years
       /\ call' = [fn |-> "simulate", n |-> num_years, year0 |-> year]
       /\ LET r == RunOn(1, cells, order, oplog)
          IN  IF num_years = 0 THEN pc' = pc /\ oplog' = oplog
                               ELSE pc' = r.pc /\ oplog' = r.oplog
  /\ UNCHANGED <<log_file, animal_count, island_map, order, overrides, cells, animals, params,
                 f_max, year, h>>

YearsNext ==
  \/ SimulateYears
  \/ UpdateFodderYear
  \/ HerbivoresEat
  \/ CarnivoresEat
  \/ AddNewborns
  \/ MigrationHerbivores
  \/ MigrationCarnivores
  \/ UpdatingAge
  \/ UpdatingWeightLoss
  \/ CheckForRandomDeath
  \/ ResetAttributes
  \/ EndOfYear

YearsSpec == YearsInit /\ [][YearsNext]_vars

(***************************************************************************)
(* Simulations on the layouts check_map accepts                            *)
(***************************************************************************)
\* the initial populations that put individuals in passable cells of map
PassablePops(map) ==
  { <<>> } \cup
  { << [loc |-> c, pop |-> pop] >> :
      c \in {k \in DOMAIN make_map(map) : make_map(map)[k].habitable},
      pop \in { <<SeedHerb>>, <<SeedCarn>>, <<SeedHerb, SeedCarn>> } }

\* the state after BioSim(island_map, ini_pop) for a layout check_map accepts
LayoutInit ==
  /\ island_map \in {m \in Layouts : check_map(m)}
  /\ order = CellOrder(island_map)
  /\ \E ini_pop \in PassablePops(island_map) :
       LET r == AddLoop(ini_pop, 1, make_map(island_map), <<>>, <<>>)
       IN  /\ cells = r.cells
           /\ animals = r.animals
           /\ h = r.h
  /\ animal_count = [sp \in Species |-> Living(animals, sp)]
  /\ log_file = NoLogFile
  /\ params = DefaultParams
  /\ f_max = [L |-> 800 * Milli, H |-> 300 * Milli, D |-> 0, W |-> 0]
  /\ year = 0
  /\ years_left = 0
  /\ pc = Idle
  /\ overrides = 0
  /\ oplog = <<>>
  /\ call = NoCall

LayoutNext ==
  \/ Simulate
  \/ UpdateFodderYear
  \/ HerbivoresEat
  \/ CarnivoresEat
  \/ AddNewborns
  \/ MigrationHerbivores
  \/ MigrationCarnivores
  \/ UpdatingAge
  \/ UpdatingWeightLoss
  \/ CheckForRandomDeath
  \/ ResetAttributes
  \/ EndOfYear

LayoutSpec == LayoutInit /\ [][LayoutNext]_vars

(***************************************************************************)
(* Properties                                                              *)
(***************************************************************************)
\* C1: within a year the operations run in this order: every cell does
\* fodder reset, herbivore feeding, predation and reproduction (in that
\* order) before any migration; both migration passes are complete before
\* any cell runs aging, weight loss or death; the flag reset runs only after
\* every cell has finished death filtering.
C1_PhaseOrder ==
  LET n     == Len(oplog)
      year_ == <<"fodder", "herb_eat", "carn_eat", "newborns",
                 "mig_herb", "mig_carn", "age", "loss", "death", "reset">>
      top   == IF n = 0 THEN 0 ELSE Rank(oplog[n][1])
  IN  /\ \A a \in 1..(n - 1) : Rank(oplog[a][1]) <= Rank(oplog[a + 1][1])
      /\ \A c \in DOMAIN cells :
            LET on  == SelectSeq(oplog, LAMBDA e : e[2] = c)
                ops == [j \in 1..Len(on) |-> on[j][1]]
            IN  /\ Len(ops) <= 10
                /\ ops = SubSeq(year_, 1, Len(ops))
                /\ top >= 2 => Len(ops) >= 4
                /\ top >= 4 => Len(ops) >= 6
                /\ top >= 5 => Len(ops) >= 9
                /\ pc.op = "end" => Len(ops) = 10
      /\ pc.op \notin {"idle", "end", "aborted"} => top <= Rank(pc.op)

\* a whole year has run on an island where somebody fed, bred, moved and aged
C1_Witness ==
  /\ pc.op = "end"
  /\ Len(oplog) = 10 * Len(order)
  /\ \E id \in DOMAIN h : h[id].alive /\ h[id].moves = 1 /\ h[id].aged = 1
  /\ \E id \in DOMAIN h : h[id].alive /\ h[id].born

\* C2: at every point between two operations every living individual is in
\* exactly one cell's collection of its species, exactly once, and in no
\* collection of the other species.
C2_OneCellOnce ==
  \A id \in DOMAIN h :
    h[id].alive =>
      LET Count(s) == Cardinality({k \in 1..Len(s) : s[k] = id})
          Own(c)   == IF animals[id].species = "Herbivore" THEN cells[c].herbivore
                                                           ELSE cells[c].carnivore
          Other(c) == IF animals[id].species = "Herbivore" THEN cells[c].carnivore
                                                           ELSE cells[c].herbivore
      IN  /\ \E c \in DOMAIN cells :
                /\ Count(Own(c)) = 1
                /\ \A c2 \in DOMAIN cells \ {c} : Count(Own(c2)) = 0
          /\ \A c \in DOMAIN cells : Count(Other(c)) = 0

\* in the middle of a migration pass, an individual has been moved to
\* another cell
C2_Witness ==
  /\ pc.op \in {"mig_herb", "mig_carn"}
  /\ \E id \in DOMAIN h :
        h[id].alive /\ h[id].moves = 1 /\ Located(cells, id) /= h[id].cell0

\* C3: a migration pass neither creates nor destroys individuals: every step
\* of a pass, and so the pass, leaves the island-wide set and number of
\* herbivores and of carnivores as they were.
C3_PassKeepsIndividuals ==
  [][pc.op \in {"mig_herb", "mig_carn"} =>
       LET Herd(cs)  == UNION {SeqRange(cs[c].herbivore) : c \in DOMAIN cs}
           Pack(cs)  == UNION {SeqRange(cs[c].carnivore) : c \in DOMAIN cs}
           HerdN(cs) == Cardinality(UNION {{<<c, k>> : k \in 1..Len(cs[c].herbivore)}
                                             : c \in DOMAIN cs})
           PackN(cs) == Cardinality(UNION {{<<c, k>> : k \in 1..Len(cs[c].carnivore)}
                                             : c \in DOMAIN cs})
       IN  /\ Herd(cells') = Herd(cells) /\ HerdN(cells') = HerdN(cells)
           /\ Pack(cells') = Pack(cells) /\ PackN(cells') = PackN(cells)]_vars

\* C4: after a migration pass every individual whose has_moved flag is set
\* is in a passable cell that is the cell it was in before the pass or one
\* of its four neighbours, and every individual whose flag is not set is in
\* the cell it was in before the pass.
C4_FlaggedNearby ==
  \A id \in DOMAIN h :
    LET pre == IF animals[id].species = "Herbivore" THEN h[id].pre_herb ELSE h[id].pre_carn
        now == Located(cells, id)
        after == IF animals[id].species = "Herbivore" THEN Rank(pc.op) \in {3, 4}
                                                       ELSE Rank(pc.op) = 4
    IN  (h[id].alive /\ after) =>
          IF animals[id].has_moved
          THEN cells[now].habitable /\ (now = pre \/ now \in SeqRange(surr_cells(pre)))
          ELSE now = pre

\* C5: within a year no individual is selected for migration more than once
\* or changes cell more than once; from its selection until the reset at
\* the end of the year its flag is set, and only selected individuals are
\* flagged.
C5_SelectedOnce ==
  \A id \in DOMAIN h :
    h[id].alive =>
      /\ h[id].selected <= 1
      /\ h[id].moves <= h[id].selected
      /\ Rank(pc.op) \in {2, 3, 4} => (animals[id].has_moved <=> h[id].selected = 1)

\* an individual moved into a cell that the pass visited afterwards, and
\* another one was selected and stayed where it was; both passes are over
C5_Witness ==
  /\ Rank(pc.op) = 4
  /\ \E id \in DOMAIN h :
        /\ h[id].alive /\ h[id].moves = 1
        /\ h[id].cell0 = <<2, 2>> /\ Located(cells, id) = <<3, 2>>
  /\ \E id \in DOMAIN h :
        h[id].alive /\ h[id].selected = 1 /\ h[id].moves = 0

\* C6: in a year an individual is fed, hunted, used as a hunter and asked to
\* give birth by one cell only, the cell it was in at the start of the year,
\* and once at most; a herbivore's amount_eaten never exceeds F.
C6_OneCellFeeds ==
  \A id \in DOMAIN h :
    h[id].alive =>
      /\ \A pass \in {h[id].fed, h[id].hunted, h[id].hunter, h[id].birth} :
            pass = <<>> \/ (pass = <<h[id].cell0>> /\ ~h[id].born)
      /\ (Rank(pc.op) \in 2..5 /\ ~h[id].born) =>
            /\ h[id].birth = <<h[id].cell0>>
            /\ animals[id].species = "Herbivore" =>
                  h[id].fed = <<h[id].cell0>> /\ h[id].hunted = <<h[id].cell0>>
            /\ animals[id].species = "Carnivore" => h[id].hunter = <<h[id].cell0>>
      /\ animals[id].species = "Herbivore" =>
            animals[id].amount_eaten <= params.Herbivore.F

\* C7: an individual alive at the end of a year is one year older than at
\* the start of the year (a newborn is 1), and aging and the annual weight
\* loss have been applied to it exactly once.
C7_AgedOnce ==
  pc.op = "end" =>
    \A id \in DOMAIN h :
      h[id].alive =>
        /\ animals[id].age = h[id].age0 + 1
        /\ h[id].born => animals[id].age = 1
        /\ h[id].aged = 1
        /\ h[id].lost = 1

\* at the end of a year: a newborn of the year, and an individual that
\* migrated in it
C7_Witness ==
  /\ pc.op = "end"
  /\ \E id \in DOMAIN h : h[id].alive /\ h[id].born /\ animals[id].age = 1
  /\ \E id \in DOMAIN h :
        h[id].alive /\ ~h[id].born /\ h[id].moves = 1 /\ animals[id].age = 6

\* C8: a carnivore's amount_eaten never exceeds the configured F of its
\* species.
C8_IntakeWithinF ==
  \A id \in DOMAIN h :
    (h[id].alive /\ animals[id].species = "Carnivore") =>
      animals[id].amount_eaten <= params.Carnivore.F

\* C9: the fodder of a cell is at least 0 and at most the configured f_max
\* of its terrain, and the fodder of a water cell is 0; the upper bound is
\* asked only of cells that were regenerated in the running year, after the
\* last change of the configuration.
C9_FodderWithinCapacity ==
  \A c \in DOMAIN cells :
    /\ cells[c].fodder >= 0
    /\ cells[c].landtype = "W" => cells[c].fodder = 0
    /\ (\E a \in 1..Len(oplog) : oplog[a] = <<"fodder", c>>) =>
          cells[c].fodder <= f_max[cells[c].landtype]

\* C10: herbivores_eat feeds each herbivore, in feeding order, the smaller of
\* F and the fodder left at its turn (0 when nothing is left); the fodder
\* decreases by the sum of what was fed; a herbivore that gets less than F
\* leaves no fodder, and the herbivores after it get 0.
C10_FedMinOfCapAndStock ==
  [][pc.op = "herb_eat" =>
       LET herbs  == cells'[Here].herbivore
           F      == params.Herbivore.F
           fed(i) == animals'[herbs[i]].amount_eaten - animals[herbs[i]].amount_eaten
           RECURSIVE Left(_)
           Left(i) == IF i = 0 THEN cells[Here].fodder ELSE Left(i - 1) - fed(i)
       IN  /\ SeqRange(herbs) = SeqRange(cells[Here].herbivore)
           /\ \A i \in 1..Len(herbs) :
                 /\ fed(i) = Min(F, Left(i - 1))
                 /\ fed(i) < F =>
                       /\ cells'[Here].fodder = 0
                       /\ \A j \in (i + 1)..Len(herbs) : fed(j) = 0
           /\ cells'[Here].fodder = Left(Len(herbs))]_vars

\* a cell has fed its herbivores: the first got less than F, the second
\* got 0, and nothing is left
C10_Witness ==
  \E c \in DOMAIN cells :
    /\ cells[c].fodder = 0
    /\ Len(cells[c].herbivore) >= 2
    /\ LET one == cells[c].herbivore[1]
           two == cells[c].herbivore[2]
       IN  /\ h[one].fed = <<c>> /\ h[two].fed = <<c>>
           /\ 0 < animals[one].amount_eaten
           /\ animals[one].amount_eaten < params.Herbivore.F
           /\ animals[two].amount_eaten = 0

\* C11: a regeneration sets the fodder of the cell to the capacity that is
\* configured for its terrain at that moment (the value last given to
\* set_landscape_parameters), and a cell of water or desert holds 0.
C11_RegeneratesToCapacity ==
  [][/\ pc.op = "fodder" => cells'[Here].fodder = f_max[cells[Here].landtype]
     /\ \A c \in DOMAIN cells :
          cells'[c].landtype \in {"W", "D"} => cells'[c].fodder = 0]_vars

\* C12: a call of set_params whose dictionary holds a negative value for a
\* coefficient of the species raises ValueError, whatever else the
\* dictionary holds.
C12_NegativeRaisesValueError ==
  (/\ call.fn = "set_params"
   /\ \E k \in DOMAIN call.dicto \cap DOMAIN call.before : call.dicto[k] < 0)
    => call.raised = "ValueError"

\* C13: a call of set_params that is rejected for a negative value leaves
\* every coefficient of the species as it was before the call, and no
\* coefficient of a species is ever negative.
C13_RejectedKeepsParams ==
  /\ (/\ call.fn = "set_params"
      /\ call.raised # ""
      /\ \E k \in DOMAIN call.dicto \cap DOMAIN call.before : call.dicto[k] < 0)
       => params[call.species] = call.before
  /\ \A sp \in Species : \A k \in DOMAIN params[sp] : params[sp][k] >= 0

\* C14: a call of set_landscape_parameters with a negative capacity raises an
\* error and leaves the capacities as they were before the call.
C14_NegativeCapacityRejected ==
  (call.fn = "set_landscape_parameters" /\ call.parameters.f_max < 0)
    => (call.raised # "" /\ f_max = call.before)

\* C15: when birth(N) returns a newborn, the weight of the parent has gone
\* down by exactly xi times the weight drawn for the newborn, and the newborn
\* is of the parent's species, has age 0, the drawn weight, has_moved False
\* and amount_eaten 0.
C15_BirthTransfersWeight ==
  (call.fn = "birth" /\ call.born) =>
    LET p           == params[call.self.species]
        baby_weight == GaussDraw(p, call.z)
    IN  /\ animals[1].weight = call.self.weight - Mul(p.xi, baby_weight)
        /\ call.newborn.species = call.self.species
        /\ call.newborn.age = 0
        /\ call.newborn.weight = baby_weight
        /\ call.newborn.has_moved = FALSE
        /\ call.newborn.amount_eaten = 0

\* a birth succeeded with a drawn weight that is not the mean, and the weight
\* of the parent changed
C15_Witness ==
  /\ call.fn = "birth"
  /\ call.born
  /\ call.z = 1
  /\ call.newborn.weight # params[call.self.species].w_birth
  /\ animals[1].weight # call.self.weight

\* C16: with random.random() forced to 0, birth(N) returns a newborn for every
\* parent whose weight exceeds xi times the drawn weight and for which
\* able_to_give_birth() holds, whatever N is; with random.random() forced to
\* 1, birth(N) returns no newborn.
C16_ForcedDrawDecidesBirth ==
  call.fn = "birth" =>
    LET a    == call.self
        p    == params[a.species]
        cost == Mul(p.xi, GaussDraw(p, call.z))
    IN  /\ (call.draw = 0 /\ a.weight > cost /\ able_to_give_birth(p, a)) => call.born
        /\ call.draw = Milli => ~call.born

\* C17: for a carnivore and a herbivore whose fitness is computed, the
\* probability of kill_proba is 0 when the carnivore's fitness is at most the
\* herbivore's, otherwise 1 when the gap is at least DeltaPhiMax, otherwise
\* gap / DeltaPhiMax; and kill() never kills a herbivore whose fitness is at
\* least the carnivore's, whatever random.random() returns.
C17_KillProbaPiecewise ==
  (call.fn = "kill" /\ call.self.fitness # NoneValue /\ call.herb.fitness # NoneValue) =>
    LET gap         == call.self.fitness - call.herb.fitness
        DeltaPhiMax == params.Carnivore.DeltaPhiMax
    IN  /\ gap <= 0 => call.p.num = 0
        /\ (gap > 0 /\ gap >= DeltaPhiMax) => call.p.num = call.p.den
        /\ (gap > 0 /\ gap < DeltaPhiMax) => call.p.num * DeltaPhiMax = gap * call.p.den
        /\ gap <= 0 => ~call.out

\* a carnivore killed at the forced draw 1/4 with a probability strictly
\* between 0 and 1, under an overridden DeltaPhiMax
C17_Witness ==
  /\ call.fn = "kill"
  /\ call.self.fitness # NoneValue
  /\ call.herb.fitness # NoneValue
  /\ params.Carnivore.DeltaPhiMax # CarnivoreParams.DeltaPhiMax
  /\ 0 < call.self.fitness - call.herb.fitness
  /\ call.self.fitness - call.herb.fitness < params.Carnivore.DeltaPhiMax
  /\ call.draw = Milli \div 4
  /\ call.out

\* C18: animal_dies() is true for every individual with weight <= 0 whatever
\* random.random() returns; it is never true for an individual with weight > 0
\* and fitness 1; and for any other individual whose fitness is computed it
\* is true exactly when omega * (1 - fitness) exceeds the draw.
C18_DiesByWeightOrDraw ==
  call.fn = "animal_dies" =>
    LET a == call.self
        p == params[a.species]
    IN  /\ a.weight <= 0 => (call.raised = "" /\ call.out)
        /\ (a.weight > 0 /\ a.fitness = Milli) => ~call.out
        /\ (a.weight > 0 /\ a.fitness # NoneValue) =>
              (call.out <=> p.omega * (Milli - a.fitness) > call.draw * Milli)

\* an individual with positive weight and fitness below 1 died at the forced
\* draw 1/4
C18_Witness ==
  /\ call.fn = "animal_dies"
  /\ call.self.weight > 0
  /\ call.self.fitness # NoneValue
  /\ call.self.fitness < Milli
  /\ call.draw = Milli \div 4
  /\ call.out

\* C19: fitness_update() of an individual with weight <= 0 stores the fitness
\* 0, whatever its age and whatever the parameters are.
C19_NoWeightNoFitness ==
  (call.fn = "fitness_update" /\ call.self.weight <= 0) => animals[1].fitness = 0

\* fitness_update() ran on an individual of negative weight under overridden
\* parameters
C19_Witness ==
  /\ call.fn = "fitness_update"
  /\ call.self.weight < 0
  /\ call.self.age > 0
  /\ params[call.self.species] # DefaultParams[call.self.species]
  /\ animals[1].fitness = 0

\* C20: the fitness stored in every individual is a number between 0 and 1 in
\* every state from its construction on, also right after add_population
\* constructed it and right after birth() returned it.
C20_FitnessInUnitInterval ==
  \A id \in DOMAIN animals :
    animals[id].fitness # NoneValue /\ 0 <= animals[id].fitness /\ animals[id].fitness <= Milli

\* C21: at the start of every year, that is while simulate() is not running
\* (after the seeding) and when the reset pass of the previous year has ended,
\* every living individual has has_moved False, amount_eaten 0 and hungry
\* True.
C21_YearStartsReset ==
  pc.op \in {"idle", "end"} =>
    \A id \in DOMAIN animals :
      Where(cells, id) # {} =>
        /\ animals[id].has_moved = FALSE
        /\ animals[id].amount_eaten = 0
        /\ animals[id].hungry = TRUE

\* a year has ended in which a living herbivore ate and moved and a living
\* carnivore hunted
C21_Witness ==
  /\ pc.op = "end"
  /\ \E id \in DOMAIN animals :
       /\ Where(cells, id) # {}
       /\ h[id].fed # <<>>
       /\ h[id].moves = 1
       /\ h[id].selected = 1

\* C22: whatever has been seeded, fed, hunted, born, moved and removed, the
\* herbivore list of every cell holds only Herbivore objects and its carnivore
\* list only Carnivore objects.
C22_ListsHoldTheirSpecies ==
  \A c \in DOMAIN cells :
    /\ \A id \in SeqRange(cells[c].herbivore) : animals[id].species = "Herbivore"
    /\ \A id \in SeqRange(cells[c].carnivore) : animals[id].species = "Carnivore"

\* a cell holds both species at the end of a year, one of them an individual
\* that moved in during the year, after a seeding that mixed the species
C22_Witness ==
  /\ pc.op = "end"
  /\ \E c \in DOMAIN cells :
       /\ cells[c].herbivore # <<>>
       /\ cells[c].carnivore # <<>>
       /\ \E id \in Occupants(cells[c]) : h[id].moves = 1 /\ h[id].cell0 # c

\* C23: add_population with an entry whose list holds an unrecognized species
\* raises ValueError at the first such entry, and no cell gains an individual
\* of that entry (nor of a later one): every cell gains exactly the
\* individuals of the earlier entries located there.
C23_UnknownSpeciesRaises ==
  [][(pc = Idle /\ pc' = Idle /\ (animals' # animals \/ call' # call)) =>
       LET population == call'.population
           bad   == {k \in 1..Len(population) :
                       \E j \in 1..Len(population[k].pop) :
                         population[k].pop[j].species \notin Species}
           first == CHOOSE k \in bad : \A k2 \in bad : k <= k2
           RECURSIVE Gain(_, _)
           Gain(c, k) == IF k = 0 THEN 0
                         ELSE Gain(c, k - 1) + (IF population[k].loc = c
                                                THEN Len(population[k].pop) ELSE 0)
       IN  bad # {} =>
             /\ call'.raised = "ValueError"
             /\ call'.entry = first
             /\ \A c \in DOMAIN cells :
                  /\ Len(cells'[c].herbivore) + Len(cells'[c].carnivore)
                       = Len(cells[c].herbivore) + Len(cells[c].carnivore) + Gain(c, first - 1)
                  /\ \A id \in Occupants(cells'[c]) : animals'[id].species \in Species]_vars

\* add_population has raised at its second entry, whose list holds a
\* Herbivore besides the unknown species, with the first entry in its cell
C23_Witness ==
  /\ call.fn = "add_population"
  /\ call.raised = "ValueError"
  /\ call.entry = 2
  /\ \E j \in 1..Len(call.population[2].pop) : call.population[2].pop[j].species = "Herbivore"
  /\ cells[call.population[1].loc].carnivore # <<>>
  /\ cells[call.population[2].loc].herbivore = <<>>

\* C24: after add_population (Island.add_animals) was given a water cell as
\* location, that cell holds no individual.
C24_NothingAddedInWater ==
  (pc = Idle /\ year = 0 /\ call.fn = "add_population") =>
    \A k \in 1..Len(call.population) :
      LET location == call.population[k].loc
      IN  cells[location].landtype = "W" => Occupants(cells[location]) = {}

\* C25: BioSim (check_map) raises ValueError for every layout with a
\* perimeter cell (first row, last row, first column, last column) that is
\* not water, and the perimeter cells of every grid made are water.
C25_PerimeterIsWater ==
  /\ call.fn = "BioSim" =>
       LET map == call.map
           perimeter == {<<n, x>> \in (1..Len(map)) \X (1..3) :
                           /\ x <= Len(map[n])
                           /\ (n \in {1, Len(map)} \/ x \in {1, Len(map[n])})}
       IN  (\E c \in perimeter : map[c[1]][c[2]] # "W") => call.raised = "ValueError"
  /\ \A c \in DOMAIN cells :
       (c[1] \in {1, Len(island_map[1])} \/ c[2] \in {1, Len(island_map)}) =>
         cells[c].landtype = "W"

\* C27: whenever simulate() is not running, the counts reported by
\* num_animals_per_species (the counters of the two classes) are the numbers
\* of individuals in the herbivore lists and in the carnivore lists of the
\* cells of the simulation, also when a further simulation has been
\* constructed.
C27_CountsAreCellContents ==
  pc = Idle =>
    LET Held(list) == Cardinality(UNION {{<<c, k>> : k \in 1..Len(cells[c][list])}
                                           : c \in DOMAIN cells})
    IN  /\ animal_count["Herbivore"] = Held("herbivore")
        /\ animal_count["Carnivore"] = Held("carnivore")

C28_FedInFitnessOrder ==
  [][pc.op = "herb_eat" =>
       LET c         == order[pc.i]
           before    == cells[c].herbivore
           fed       == cells'[c].herbivore
           phi(id)   == fitness_update(params[animals[id].species], animals[id]).fitness
           pos(id)   == CHOOSE k \in 1..Len(before) : before[k] = id
           Eaten(id) == animals'[id].amount_eaten - animals[id].amount_eaten
           RECURSIVE Left(_)
           Left(k)   == IF k = 1 THEN cells[c].fodder ELSE Left(k - 1) - Eaten(fed[k - 1])
       IN  /\ Len(fed) = Len(before)
           /\ SeqRange(fed) = SeqRange(before)
           /\ \A i, j \in 1..Len(fed) :
                i < j => /\ phi(fed[i]) >= phi(fed[j])
                         /\ phi(fed[i]) = phi(fed[j]) => pos(fed[i]) < pos(fed[j])
           /\ \A k \in 1..Len(fed) :
                Eaten(fed[k]) = Min(params[animals[fed[k]].species].F, Left(k))]_vars

\* a pass has fed three herbivores, two of them of equal fitness and the
\* fitter third moved in front of both, and the fodder ran out at the second
\* of the two: the first of them ate and the second got nothing
C28_Witness ==
  \E c \in DOMAIN cells :
    LET s == cells[c].herbivore
    IN  /\ Len(s) = 3
        /\ \A k \in 1..3 : h[s[k]].fed = <<c>>
        /\ s[2] < s[3] /\ s[1] > s[2]
        /\ animals[s[2]].age = animals[s[3]].age
        /\ animals[s[2]].amount_eaten > 0
        /\ animals[s[3]].amount_eaten = 0
        /\ animals[s[2]].weight > animals[s[3]].weight
        /\ cells[c].fodder = 0

\* C29: a successful kill after which the carnivore has eaten the cap, the
\* 50 of Carnivore.kill, leaves it not hungry, and a carnivore that had
\* eaten the cap when kill was called does not report a kill.
C29_CapMeansSated ==
  (call.fn = "kill" /\ call.raised = "") =>
    /\ (call.out /\ animals[1].amount_eaten >= KillCap * Milli) => ~animals[1].hungry
    /\ call.self.amount_eaten >= KillCap * Milli => ~call.out

\* C30: in a carnivores_eat pass, whatever the draws that made it, a
\* herbivore is gone from the cell's list afterwards exactly when a call of
\* kill on it returned True; after such a call no further call of kill is
\* made on it; and the list is shorter by the number of calls that returned
\* True.
C30_RemovedIffKilled ==
  [][pc.op = "carn_eat" =>
       LET c      == order[pc.i]
           before == cells[c].herbivore
           after  == cells'[c].herbivore
       IN  \A draws \in [SeqRange(cells[c].carnivore) \X SeqRange(before) -> BOOLEAN] :
             LET r   == carnivores_eat(cells[c], animals, params, draws)
                 log == r.log
                 won == {k \in 1..Len(log) : log[k][3]}
             IN  (r.ok /\ cells'[c] = r.cell /\ animals' = Destroy(r.animals, r.killed)) =>
                   /\ \A herb \in SeqRange(before) :
                        herb \notin SeqRange(after) <=> \E k \in won : log[k][2] = herb
                   /\ \A k \in won : \A k2 \in 1..Len(log) :
                        k2 > k => log[k2][2] # log[k][2]
                   /\ Len(after) = Len(before) - Cardinality(won)
                   /\ \A k \in 1..Len(log) :
                        log[k][1] \in SeqRange(cells[c].carnivore) /\ log[k][2] \in SeqRange(before)]_vars

\* a pass of two carnivores and a herbivore is over: the first carnivore
\* ate the herbivore, the second one went without
C30_Witness ==
  \E c \in DOMAIN cells :
    /\ Len(cells[c].carnivore) = 2
    /\ cells[c].herbivore = <<>>
    /\ animals[cells[c].carnivore[1]].amount_eaten > 0
    /\ animals[cells[c].carnivore[2]].amount_eaten = 0
    /\ h[cells[c].carnivore[2]].hunter = <<c>>
    /\ \E id \in DOMAIN animals : animals[id] = Gone

\* C31: in a carnivores_eat pass, whatever the draws that made it, the calls
\* of kill are made carnivore by carnivore in the order of the cell's
\* carnivore list; each carnivore is offered exactly the herbivores that no
\* earlier carnivore killed, and it is offered them in order of
\* non-decreasing fitness as recomputed at the start of the pass.
C31_WeakestPreyFirst ==
  [][pc.op = "carn_eat" =>
       LET c       == order[pc.i]
           carns   == cells[c].carnivore
           before  == cells[c].herbivore
           phi(id) == fitness_update(params[animals[id].species], animals[id]).fitness
           pos(id) == CHOOSE k \in 1..Len(carns) : carns[k] = id
       IN  \A draws \in [SeqRange(carns) \X SeqRange(before) -> BOOLEAN] :
             LET r   == carnivores_eat(cells[c], animals, params, draws)
                 log == r.log
                 KilledBefore(carni) ==
                   {log[k][2] : k \in {k1 \in 1..Len(log) :
                                         log[k1][3] /\ pos(log[k1][1]) < pos(carni)}}
             IN  (r.ok /\ cells'[c] = r.cell /\ animals' = Destroy(r.animals, r.killed)) =>
                   /\ \A k, k2 \in 1..Len(log) :
                        k < k2 =>
                          /\ pos(log[k][1]) <= pos(log[k2][1])
                          /\ log[k][1] = log[k2][1] =>
                               /\ log[k][2] # log[k2][2]
                               /\ phi(log[k][2]) <= phi(log[k2][2])
                   /\ \A carni \in SeqRange(carns) :
                        {log[k][2] : k \in {k1 \in 1..Len(log) : log[k1][1] = carni}}
                          = SeqRange(before) \ KilledBefore(carni)]_vars

\* a pass is over in which a carnivore was offered two herbivores of
\* different fitness, the fitter one in front in the list: it ate the weaker
\* one whole, and the fitter one is left
C31_Witness ==
  \E c \in DOMAIN cells :
    /\ Len(cells[c].carnivore) = 1
    /\ Len(cells[c].herbivore) = 1
    /\ h[cells[c].herbivore[1]].hunted = <<c>>
    /\ h[cells[c].carnivore[1]].hunter = <<c>>
    /\ animals[cells[c].herbivore[1]].weight > 60 * Milli
    /\ animals[cells[c].carnivore[1]].amount_eaten > 40 * Milli
    /\ animals[cells[c].carnivore[1]].amount_eaten < KillCap * Milli
    /\ animals[cells[c].carnivore[1]].hungry
    /\ pc.op = "newborns"

\* C32: in an add_newborns pass, whatever the draws that made it, birth is
\* called exactly once on every herbivore and every carnivore that was in the
\* cell before the pass and on nobody else, with N the length of the
\* caller's list before the pass; and each list after the pass is the list
\* before followed by the newborns of its species, one for every call that
\* returned one.
C32_BirthOncePerMember ==
  [][pc.op = "newborns" =>
       LET c == order[pc.i]
           herbs == cells[c].herbivore
           carns == cells[c].carnivore
       IN  \A draws \in [Occupants(cells[c]) -> [z : {0, 1}, u : BOOLEAN]] :
             LET r    == add_newborns(cells[c], animals, params, draws)
                 log  == r.log
                 Born(list) == Cardinality({k \in 1..Len(log) :
                                              log[k][3] /\ log[k][1] \in SeqRange(list)})
                 Fresh(list2, list) ==
                   \A k \in (Len(list) + 1)..Len(list2) :
                     /\ list2[k] \notin DOMAIN animals
                     /\ animals'[list2[k]].age = 0
                     /\ \A j \in 1..Len(log) : log[j][1] # list2[k]
             IN  (r.ok /\ cells'[c] = r.cell /\ animals' = r.animals) =>
                   /\ Len(log) = Len(herbs) + Len(carns)
                   /\ \A k \in 1..Len(log) :
                        /\ k <= Len(herbs) => log[k][1] = herbs[k] /\ log[k][2] = Len(herbs)
                        /\ k > Len(herbs) => /\ log[k][1] = carns[k - Len(herbs)]
                                             /\ log[k][2] = Len(carns)
                   /\ SubSeq(cells'[c].herbivore, 1, Len(herbs)) = herbs
                   /\ SubSeq(cells'[c].carnivore, 1, Len(carns)) = carns
                   /\ Len(cells'[c].herbivore) = Len(herbs) + Born(herbs)
                   /\ Len(cells'[c].carnivore) = Len(carns) + Born(carns)
                   /\ Fresh(cells'[c].herbivore, herbs)
                   /\ Fresh(cells'[c].carnivore, carns)]_vars

\* a pass is over in which the first of two herbivores gave birth: the
\* newborn stands behind both, and both were asked once
C32_Witness ==
  \E c \in DOMAIN cells :
    LET s == cells[c].herbivore
    IN  /\ Len(s) = 3
        /\ h[s[3]].born
        /\ animals[s[3]].age = 0
        /\ h[s[3]].birth = <<>>
        /\ h[s[1]].birth = <<c>>
        /\ h[s[2]].birth = <<c>>
        /\ animals[s[1]].weight < 40 * Milli
        /\ animals[s[2]].weight > 60 * Milli
        /\ animals[s[3]].weight > 0
        /\ pc.op \in {"mig_herb", "mig_carn", "age"}

\* C33: a call of birth(N) that returns no newborn leaves the object exactly
\* as it was (age, weight, fitness, has_moved, amount_eaten, hungry), and no
\* object is made.
C33_FailedBirthChangesNothing ==
  (call.fn = "birth" /\ ~call.born) =>
    /\ animals[1] = call.self
    /\ call.newborn = Gone

\* birth(N) returned nothing to a parent with computed fitness, N >= 2 and the
\* draw forced to 0: its weight is positive but not above what a birth asks
C33_Witness ==
  /\ call.fn = "birth"
  /\ ~call.born
  /\ call.raised = ""
  /\ call.N >= 2
  /\ call.draw = 0
  /\ call.self.fitness > 0
  /\ call.self.weight > 0
  /\ animals[1] = call.self

\* C34: in a migration pass over a cell, whatever the draws that made it,
\* the two lists animals_to_migrate returns for the cell's list are disjoint,
\* hold every member of the list once and in the order of the list, and
\* nobody else; every member of the migrating list has has_moved True on
\* return and had it False before; the staying members keep their has_moved.
C34_MigrateStayPartition ==
  [][pc.op \in {"mig_herb", "mig_carn"} =>
       LET c          == order[pc.i]
           population == IF pc.op = "mig_herb" THEN cells[c].herbivore ELSE cells[c].carnivore
       IN  \A choice \in [SeqRange(population) -> 0..4] :
             LET m == IF pc.op = "mig_herb"
                      THEN migration_herbivores(c, cells, animals, params, choice)
                      ELSE migration_carnivores(c, cells, animals, params, choice)
                 r == animals_to_migrate(population, animals, params, choice)
                 going == SeqRange(r.migrate)
             IN  (m.ok /\ cells' = m.cells /\ animals' = Destroy(m.animals, m.lost)) =>
                   /\ going \cap SeqRange(r.stay) = {}
                   /\ Len(r.migrate) + Len(r.stay) = Len(population)
                   /\ r.migrate = SelectSeq(population, LAMBDA x : x \in going)
                   /\ r.stay = SelectSeq(population, LAMBDA x : x \notin going)
                   /\ \A x \in going : r.animals[x].has_moved /\ ~animals[x].has_moved
                   /\ \A k \in 1..Len(r.stay) :
                        r.animals[r.stay[k]].has_moved = animals[r.stay[k]].has_moved]_vars

\* the herbivore passes are over: a herbivore that moved into the next cell
\* was in that cell's list, flagged, when its pass came, and stayed; another
\* stayed behind unflagged
C34_Witness ==
  /\ pc.op \in {"mig_carn", "age"}
  /\ \E id, id2 \in DOMAIN animals :
       /\ animals[id].species = "Herbivore" /\ animals[id2].species = "Herbivore"
       /\ h[id].cell0 = <<2, 2>>
       /\ Where(cells, id) = {<<3, 2>>}
       /\ animals[id].has_moved
       /\ h[id].selected = 1
       /\ Where(cells, id2) = {<<2, 2>>}
       /\ ~animals[id2].has_moved

\* C35: no step of a simulated year puts an individual into a water cell:
\* when the lists of every water cell are empty before a step of the yearly
\* cycle they are empty after it, so with a stocking that used passable
\* cells only nobody is in water after any number of steps and years.
C35_NobodyEntersWater ==
  [][LET WaterEmpty(cs) == \A c \in DOMAIN cs :
                             ~cs[c].habitable => cs[c].herbivore = <<>> /\ cs[c].carnivore = <<>>
     IN  (WaterEmpty(cells) /\ ~(pc = Idle /\ pc' = Idle)) => WaterEmpty(cells')]_vars

\* an individual of the lowland cell was selected to migrate, drew one of the
\* three water neighbours and is still in its cell; every water cell is empty
C35_Witness ==
  /\ pc.op \in {"mig_carn", "age"}
  /\ \A c \in DOMAIN cells :
       ~cells[c].habitable => cells[c].herbivore = <<>> /\ cells[c].carnivore = <<>>
  /\ \E id \in DOMAIN animals :
       /\ h[id].selected = 1
       /\ h[id].moves = 0
       /\ animals[id].has_moved
       /\ Where(cells, id) = {<<2, 2>>}

\* C36: on a layout check_map accepted, with the population seeded in
\* passable cells, no migration pass ends in the KeyError of self.cells[target]:
\* every target drawn for a migrating individual is a key of the grid.
C36_TargetsAreKeys ==
  ~(/\ pc = Aborted
    /\ Len(oplog) > 0
    /\ oplog[Len(oplog)][1] \in {"mig_herb", "mig_carn"})

\* C37: in the reproduction pass of a cell, a species whose list in the cell
\* holds at most one individual before the pass gets no newborn: its list is
\* the same after the pass and no object of the species is made, whatever
\* the individual's weight and fitness and whatever was drawn.
C37_NoBirthAlone ==
  [][pc.op = "newborns" =>
       LET c    == order[pc.i]
           made == {animals'[id].species : id \in DOMAIN animals' \ DOMAIN animals}
       IN  /\ Len(cells[c].herbivore) <= 1 =>
                cells'[c].herbivore = cells[c].herbivore /\ "Herbivore" \notin made
           /\ Len(cells[c].carnivore) <= 1 =>
                cells'[c].carnivore = cells[c].carnivore /\ "Carnivore" \notin made]_vars

\* the reproduction pass of a cell is over in which the only individual of
\* its species was old and heavy enough to give birth: no newborn is there
C37_Witness ==
  /\ pc.op \in {"newborns", "mig_herb"}
  /\ \E id \in DOMAIN animals :
       LET c  == Located(cells, id)
           sp == animals[id].species
           p  == params[sp]
       IN  /\ sp \in Species
           /\ Where(cells, id) # {}
           /\ h[id].birth = <<c>>
           /\ h[id].selected = 0
           /\ able_to_give_birth(p, animals[id])
           /\ animals[id].weight > Mul(p.xi, p.w_birth)
           /\ animals[id].fitness > 0
           /\ (IF sp = "Herbivore" THEN cells[c].herbivore ELSE cells[c].carnivore) = <<id>>

\* C38: after a call of birth that returned a newborn, whatever value
\* random.gauss gave for the birth weight, the newborn's weight is above zero
\* and the parent's weight is not above what it was before the call.
C38_NewbornHasWeight ==
  (call.fn = "birth" /\ call.born) =>
    /\ call.newborn.weight > 0
    /\ animals[1].weight <= call.self.weight

=============================================================================
